---- MODULE Spec2Model ----
(***************************************************************************)
(* Model of a11y-mermaid-studio (app.js): the metadata extractor, the      *)
(* annotation auto-insertion, the SVG accessibility transformer and the    *)
(* editor / preview / export state of the page.                            *)
(*                                                                         *)
(* Text is a sequence of atoms.  The atoms "%%", "accTitle" and "accDescr" *)
(* stand for those literal character runs, " " and "\n" are the two kinds  *)
(* of whitespace the regular expressions tell apart (\s matches both, .    *)
(* matches only the first), every other atom is an ordinary character.     *)
(***************************************************************************)
EXTENDS Integers, Sequences, FiniteSets, TLC

VARIABLES
  src, pm, ens, mpc, ret,                   \* the text functions and their results
  svgIn, meta, res, prev, calls, allText,  \* the transformer, its input and result
  clock,                                    \* Date.now()
  sourceInput, svgCode, previewLight, previewDark, highlight, narrative,
  editorError, status,                      \* the page: values and contents of its elements
  State,                                    \* the STATE object of app.js
  lastDiagram,                              \* localStorage 'lastDiagram'
  inflight,                                 \* validateAndRender runs awaiting the engine
  exported,                                 \* the file the last step downloaded, if any
  rendered,                                 \* the engine's answer the last step handled, if any
  randomBtn,                                \* #random-btn and the click handlers awaiting a load
  handlerToast                              \* the toast that handler showed in the last step, if any

metaVars == <<src, pm, ens, mpc, ret>>
xfVars == <<svgIn, meta, res, prev, calls, allText>>
pageVars == <<svgCode, previewLight, previewDark, highlight, State>>
appVars == <<sourceInput, pageVars, narrative, editorError, status, lastDiagram,
             inflight, exported, rendered, randomBtn, handlerToast>>
vars == <<metaVars, xfVars, clock, appVars>>

(***************************************************************************)
(* Bounds                                                                  *)
(***************************************************************************)
MaxLen == 6
MaxKids == 2
MaxRuns == 2
MaxClock == 1
MaxRnd == 1
MaxInflight == 2
MaxPageClock == 0
MaxFenceLen == 7
MaxStrips == 2
MaxDetectLen == 3
MaxNarrLines == 3
MaxHandlers == 2

(***************************************************************************)
(* Text helpers                                                            *)
(***************************************************************************)
Min(S) == CHOOSE x \in S : \A y \in S : x <= y
Max(S) == CHOOSE x \in S : \A y \in S : x >= y

WS == {" ", "\n"}
Alphabet == {"%%", "accTitle", "accDescr", " ", "\n", "x"}

SeqsUpTo(S, n) == UNION {[1..k -> S] : k \in 0..n}

\* position of the first atom at or after p that \s does not match
SkipWs(s, p) ==
  LET cand == {q \in p..Len(s) : s[q] \notin WS}
  IN  IF cand = {} THEN Len(s) + 1 ELSE Min(cand)

\* position of the first line terminator at or after p
EndOfLine(s, p) ==
  LET cand == {q \in p..Len(s) : s[q] = "\n"}
  IN  IF cand = {} THEN Len(s) + 1 ELSE Min(cand)

\* String.prototype.trim
Trim(t) ==
  LET nz == {q \in 1..Len(t) : t[q] \notin WS}
  IN  IF nz = {} THEN <<>> ELSE SubSeq(t, Min(nz), Max(nz))

endsWith(s, c) == Len(s) > 0 /\ s[Len(s)] = c

IsPrefix(p, s) == Len(p) <= Len(s) /\ SubSeq(s, 1, Len(p)) = p

Null == [some |-> FALSE, v |-> <<>>]
Some(t) == [some |-> TRUE, v |-> t]
\* JavaScript truthiness of a string-or-null value
Truthy(f) == f.some /\ f.v # <<>>

(***************************************************************************)
(* parseMermaidMetadata: /%%\s*accTitle\s*(.+)/ and /%%\s*accDescr\s*(.+)/ *)
(***************************************************************************)
\* One attempt of the pattern /%%\s*kw\s*(.+)/ anchored at position i.
\* \s* is greedy and backtracks; .+ needs at least one non-terminator atom.
accMatchAt(s, kw, i) ==
  IF s[i] # "%%" THEN [ok |-> FALSE, v |-> <<>>]
  ELSE LET k == SkipWs(s, i + 1)
       IN  IF k > Len(s) \/ s[k] # kw THEN [ok |-> FALSE, v |-> <<>>]
           ELSE LET q == SkipWs(s, k + 1)
                IN  IF q <= Len(s)
                    THEN [ok |-> TRUE, v |-> SubSeq(s, q, EndOfLine(s, q) - 1)]
                    ELSE LET sp == {p \in (k + 1)..Len(s) : s[p] # "\n"}
                         IN  IF sp = {} THEN [ok |-> FALSE, v |-> <<>>]
                             ELSE [ok |-> TRUE,
                                   v  |-> SubSeq(s, Max(sp), EndOfLine(s, Max(sp)) - 1)]

\* String.prototype.match: the leftmost position where the pattern matches
accMatch(s, kw) ==
  LET hits == {i \in 1..Len(s) : accMatchAt(s, kw, i).ok}
  IN  IF hits = {} THEN Null ELSE Some(Trim(accMatchAt(s, kw, Min(hits)).v))

parseMermaidMetadata(mermaidSource) ==
  [title       |-> accMatch(mermaidSource, "accTitle"),
   description |-> accMatch(mermaidSource, "accDescr")]

(***************************************************************************)
(* ensureMetadata                                                          *)
(***************************************************************************)
DefaultTitleLine == <<"%%", "accTitle", " ", "Untitled Diagram">>
DefaultDescrLine ==
  <<"%%", "accDescr", " ", "Auto-generated description for accessibility. Please customize.">>

\* lines.join('\n') for the lines pushed by ensureMetadata
ensureLines(current) ==
  LET t == IF ~Truthy(current.title) THEN <<DefaultTitleLine>> ELSE <<>>
      d == IF ~Truthy(current.description) THEN <<DefaultDescrLine>> ELSE <<>>
      ls == t \o d
  IN  IF Len(ls) = 0 THEN <<>>
      ELSE IF Len(ls) = 1 THEN ls[1]
      ELSE ls[1] \o <<"\n">> \o ls[2]

ensureMetadataPrepend(source) ==
  LET current == parseMermaidMetadata(source)
      added   == ~Truthy(current.title) \/ ~Truthy(current.description)
      updated == IF added
                 THEN ensureLines(current) \o <<"\n">> \o source
                 ELSE source
  IN  [source |-> updated, metadata |-> parseMermaidMetadata(updated), added |-> added]

ensureMetadataStale(source) ==
  LET current == parseMermaidMetadata(source)
      added   == ~Truthy(current.title) \/ ~Truthy(current.description)
      updated == IF added
                 THEN source \o (IF endsWith(source, "\n") THEN <<>> ELSE <<"\n">>)
                             \o ensureLines(current) \o <<"\n">>
                 ELSE source
  IN  [source |-> updated, metadata |-> current, added |-> added]

ensureMetadata(source) ==
  LET current == parseMermaidMetadata(source)
      added   == ~Truthy(current.title) \/ ~Truthy(current.description)
      updated == IF added
                 THEN source \o (IF endsWith(source, "\n") THEN <<>> ELSE <<"\n">>)
                             \o ensureLines(current) \o <<"\n">>
                 ELSE source
  IN  [source |-> updated, metadata |-> parseMermaidMetadata(updated), added |-> added]

(***************************************************************************)
(* SVG documents.  An element is a record; the root's children are         *)
(* elements whose own children are leaves, which is enough to tell a child *)
(* of the root from a deeper descendant.  Text content is a sequence of    *)
(* atoms.  An id is a tuple: <<>> for none, <<"flowchart">> for an id the  *)
(* rendering engine gave a flowchart node ("flowchart-A-0"), other tuples  *)
(* for the ids of title and desc nodes.                                    *)
(***************************************************************************)
NoId == <<>>

Elem(tag, id, cls, text, kids) ==
  [tag |-> tag, id |-> id, cls |-> cls, role |-> "", hidden |-> FALSE,
   text |-> text, kids |-> kids]

Leaf(tag, text) == Elem(tag, NoId, "", text, <<>>)

Root(kids) ==
  [tag |-> "svg", role |-> "", labelledby |-> <<>>, xmlns |-> TRUE, viewBox |-> TRUE,
   kids |-> kids]

\* A string of markup: the document it parses to (root, when wf) and the
\* form it is written in: "raw" as serialized, "pretty" as formatSvg writes
\* it, "min" as optimizeSvg writes it, "empty" for ''.
Markup(root) == [form |-> "raw", wf |-> TRUE, root |-> root]
Malformed(root) == [form |-> "raw", wf |-> FALSE, root |-> root]
EmptyString == [form |-> "empty", wf |-> FALSE, root |-> Root(<<>>)]

RemoveIdx(s, i) == SubSeq(s, 1, i - 1) \o SubSeq(s, i + 1, Len(s))
InsertAt(s, i, e) == SubSeq(s, 1, i - 1) \o <<e>> \o SubSeq(s, i, Len(s))

\* Locations of the descendants of the root: <<i, 0>> is the i-th child,
\* <<i, j>> the j-th child of the i-th child.
NoLoc == <<0, 0>>

LocsOf(kids, tag) ==
  {<<i, 0>> : i \in {n \in 1..Len(kids) : kids[n].tag = tag}}
  \cup
  UNION {{<<i, j>> : j \in {m \in 1..Len(kids[i].kids) : kids[i].kids[m].tag = tag}} :
           i \in 1..Len(kids)}

Before(l, m) == l[1] < m[1] \/ (l[1] = m[1] /\ l[2] <= m[2])

\* Element.querySelector(tag): the first match in document order
querySelector(kids, tag) ==
  LET S == LocsOf(kids, tag)
  IN  IF S = {} THEN NoLoc ELSE CHOOSE l \in S : \A m \in S : Before(l, m)

\* Element.remove() of the node at location l
RemoveLoc(kids, l) ==
  IF l = NoLoc THEN kids
  ELSE IF l[2] = 0 THEN RemoveIdx(kids, l[1])
  ELSE [kids EXCEPT ![l[1]].kids = RemoveIdx(@, l[2])]

\* both removals of applyAccessibilityTransformations; the two nodes were
\* looked up before either was removed
RemoveBoth(kids, tl, dl) ==
  IF Before(tl, dl) THEN RemoveLoc(RemoveLoc(kids, dl), tl)
  ELSE RemoveLoc(RemoveLoc(kids, tl), dl)

(***************************************************************************)
(* generateUniqueId: `${prefix}-${Date.now()}-${Math.random()...}`         *)
(***************************************************************************)
generateUniqueId(prefix, now, rnd) == <<prefix, now, rnd>>

(***************************************************************************)
(* applyFlowchartSemantics                                                 *)
(***************************************************************************)
ShapeTags == {"rect", "circle", "ellipse", "polygon", "path"}
EdgeClasses == {"edgePath", "edgeLabel", "edgePaths"}

HasFlowchartId(e) == Len(e.id) > 0 /\ e.id[1] = "flowchart"

\* svg.querySelector('[id^="flowchart-"]')
flowchartRoot(svg) ==
  \E i \in 1..Len(svg.kids) :
     \/ HasFlowchartId(svg.kids[i])
     \/ \E j \in 1..Len(svg.kids[i].kids) : HasFlowchartId(svg.kids[i].kids[j])

IsNodeGroup(e) == e.tag = "g" /\ e.cls = "node"

\* svg.querySelectorAll('g.node')
nodeGroups(svg) == {i \in 1..Len(svg.kids) : IsNodeGroup(svg.kids[i])}

\* the indices of the <text> children of a node group, in document order
textElements(node) == {j \in 1..Len(node.kids) : node.kids[j].tag = "text"}

RECURSIVE JoinTexts(_, _)
JoinTexts(node, j) ==
  IF j > Len(node.kids) THEN <<>>
  ELSE (IF node.kids[j].tag = "text" THEN Trim(node.kids[j].text) \o <<" ">> ELSE <<>>)
       \o JoinTexts(node, j + 1)

nodeText(node) == Trim(JoinTexts(node, 1))

FirstTitleIdx(ks) ==
  LET S == {j \in 1..Len(ks) : ks[j].tag = "title"}
  IN  IF S = {} THEN 0 ELSE Min(S)

\* the body of nodeGroups.forEach
processNode(node) ==
  LET txt   == nodeText(node)
      first == IF textElements(node) = {} THEN 0 ELSE Min(textElements(node))
      many  == Cardinality(textElements(node)) > 1
      \* shapes and all text runs after the first are hidden
      marked == [j \in 1..Len(node.kids) |->
                   IF node.kids[j].tag \in ShapeTags
                      \/ (many /\ node.kids[j].tag = "text" /\ j # first)
                   THEN [node.kids[j] EXCEPT !.hidden = TRUE]
                   ELSE node.kids[j]]
      t0     == FirstTitleIdx(marked)
      kept   == IF t0 = 0 THEN marked ELSE RemoveIdx(marked, t0)
      titled == IF txt # <<>> THEN <<Leaf("title", txt)>> \o kept ELSE kept
  IN  [node EXCEPT !.role = "listitem", !.kids = titled]

hideMarkers(e) ==
  IF e.tag = "defs"
  THEN [e EXCEPT !.kids = [j \in 1..Len(e.kids) |->
                             IF e.kids[j].tag = "marker"
                             THEN [e.kids[j] EXCEPT !.hidden = TRUE]
                             ELSE e.kids[j]]]
  ELSE e

applyFlowchartSemantics(svg) ==
  IF ~flowchartRoot(svg) THEN svg
  ELSE IF nodeGroups(svg) = {} THEN svg
  ELSE [svg EXCEPT !.kids =
          [i \in 1..Len(svg.kids) |->
             IF IsNodeGroup(svg.kids[i]) THEN processNode(svg.kids[i])
             ELSE IF svg.kids[i].tag = "g" /\ svg.kids[i].cls \in EdgeClasses
                  THEN [svg.kids[i] EXCEPT !.hidden = TRUE]
             ELSE hideMarkers(svg.kids[i])]]

(***************************************************************************)
(* applyAccessibilityTransformations                                       *)
(***************************************************************************)
\* DOMParser.parseFromString never throws: malformed markup gives a document
\* that holds a <parsererror> element, as the root (Gecko) or as the first
\* child of what was parsed of the root (Blink, WebKit).
ParseError == Leaf("parsererror", <<"x">>)

parseFromString(svgString) ==
  IF svgString.wf THEN {svgString.root}
  ELSE {[Root(<<Leaf("sourcetext", <<"x">>)>>) EXCEPT !.tag = "parsererror"],
        [svgString.root EXCEPT !.kids = <<ParseError>> \o @]}

hasParserError(doc) ==
  doc.tag = "parsererror" \/ \E i \in 1..Len(doc.kids) : doc.kids[i].tag = "parsererror"

\* XMLSerializer.serializeToString
serializeToString(doc) == Markup(doc)

\* The reference node of svg.insertBefore(desc, ...):
\*   svg.querySelector('title')?.nextSibling || svg.firstChild
\* n > 0: the n-th child of the root; 0: null; -1: a node that is not a
\* child of the root (the next sibling of a nested title).
descReference(kids) ==
  LET t == querySelector(kids, "title")
      firstChild == IF Len(kids) > 0 THEN 1 ELSE 0
  IN  IF t = NoLoc THEN firstChild
      ELSE IF t[2] = 0
           THEN (IF t[1] < Len(kids) THEN t[1] + 1 ELSE firstChild)
           ELSE (IF t[2] < Len(kids[t[1]].kids) THEN -1 ELSE firstChild)

applyAccessibilityTransformations(doc, metadata, titleId, descId) ==
  LET k0 == doc.kids
      existingTitle == querySelector(k0, "title")
      existingDesc  == querySelector(k0, "desc")
      k1 == RemoveBoth(k0, existingTitle, existingDesc)
      title == Elem("title", titleId, "", metadata.title.v, <<>>)
      k2 == IF Truthy(metadata.title) THEN <<title>> \o k1 ELSE k1
      desc == Elem("desc", descId, "", metadata.description.v, <<>>)
      ref == descReference(k2)
      k3 == IF ~Truthy(metadata.description) THEN k2
            ELSE IF ref > 0 THEN InsertAt(k2, ref, desc)
            ELSE Append(k2, desc)
      lbl == IF Truthy(metadata.title) /\ Truthy(metadata.description)
             THEN <<titleId, descId>>
             ELSE IF Truthy(metadata.title) THEN <<titleId>>
             ELSE doc.labelledby
      svg == [doc EXCEPT !.role = "img", !.kids = k3, !.labelledby = lbl]
  IN  IF Truthy(metadata.description) /\ ref = -1
      THEN [threw |-> TRUE, svg |-> serializeToString(doc)]
      ELSE [threw |-> FALSE,
            svg   |-> serializeToString([applyFlowchartSemantics(svg) EXCEPT !.xmlns = TRUE])]

NoMeta == [title |-> Null, description |-> Null]
NoRet == [n |-> 0]

NoEnsured == [source |-> <<>>, metadata |-> NoMeta, added |-> FALSE]

MetaIdle ==
  /\ src = <<>>
  /\ pm = NoMeta
  /\ ens = NoEnsured
  /\ mpc = "idle"
  /\ ret = NoRet

(***************************************************************************)
(* The page: formatSvg, optimizeSvg, updateSvgDisplay, displayPreview,     *)
(* ensureViewBox, parseSvgSafely, handleExport.  A page value P holds the  *)
(* STATE object and the elements these functions write.                    *)
(***************************************************************************)
IsEmpty(svgString) == svgString.form = "empty"

\* formatSvg: '' for '', the markup itself when it cannot be formatted,
\* otherwise the same document written with line breaks and indentation
formatSvg(svgString) ==
  IF IsEmpty(svgString) THEN EmptyString
  ELSE IF ~svgString.wf THEN svgString
  ELSE [svgString EXCEPT !.form = "pretty"]

\* optimizeSvg: '' for '', the markup itself when it cannot be optimized,
\* otherwise the same document minified (the SVGO call overrides
\* removeTitle, removeDesc, removeViewBox and cleanupIds to false)
optimizeSvg(svgString) ==
  IF IsEmpty(svgString) THEN EmptyString
  ELSE IF ~svgString.wf THEN svgString
  ELSE [svgString EXCEPT !.form = "min"]

updateSvgDisplay(P) ==
  IF IsEmpty(P.State.currentSvg) THEN P
  ELSE LET b == IF IsEmpty(P.State.beautifiedSvg)
                THEN formatSvg(P.State.currentSvg) ELSE P.State.beautifiedSvg
           o == IF IsEmpty(P.State.optimizedSvg)
                THEN optimizeSvg(P.State.currentSvg) ELSE P.State.optimizedSvg
           value == IF P.State.svgMode = "beautiful" THEN b ELSE o
       IN  [P EXCEPT !.State.beautifiedSvg = b,
                     !.State.optimizedSvg = o,
                     !.svgCode = value,
                     !.highlight = value]

displayPreview(P, svgString) ==
  updateSvgDisplay([P EXCEPT !.previewLight = svgString,
                             !.previewDark = svgString,
                             !.State.currentSvg = svgString,
                             !.State.beautifiedSvg = EmptyString,
                             !.State.optimizedSvg = EmptyString])

\* ensureViewBox: markup without a viewBox gets one and is written again
ensureViewBox(svgString) ==
  IF IsEmpty(svgString) THEN svgString
  ELSE IF svgString.root.tag # "svg" THEN svgString
  ELSE IF svgString.root.viewBox THEN svgString
  ELSE Markup([svgString.root EXCEPT !.viewBox = TRUE])

\* parseSvgSafely(...).ok: the parsed document holds no <parsererror>
parseSvgSafely(svgString) == svgString.wf

\* lightPreview.querySelector('svg')
hasSvg(preview) == ~IsEmpty(preview) /\ preview.root.tag = "svg"

NotExported == [done |-> FALSE, svg |-> EmptyString]

NotRendered == [done |-> FALSE, svg |-> EmptyString, failed |-> FALSE]

\* handleExport: the page afterwards, the status message and the download
handleExport(P) ==
  LET Q == updateSvgDisplay(P)
  IN  IF IsEmpty(Q.svgCode) /\ ~hasSvg(Q.previewLight)
      THEN [page |-> Q, status |-> "error: No diagram to export", out |-> NotExported]
      ELSE [page |-> Q, status |-> "SVG exported successfully",
            out  |-> [done |-> TRUE,
                      svg  |-> IF IsEmpty(Q.svgCode)
                               THEN serializeToString(Q.previewLight.root)
                               ELSE Q.svgCode]]

\* the narrative written by generateDiagramNarrative(mermaidSource, metadata)
generateDiagramNarrative(mermaidSource, metadata) ==
  [shown |-> TRUE, source |-> mermaidSource, metadata |-> metadata]

NoNarrative == [shown |-> FALSE, source |-> <<>>, metadata |-> NoMeta]

InitialSTATE ==
  [svgMode |-> "beautiful", currentSvg |-> EmptyString,
   beautifiedSvg |-> EmptyString, optimizedSvg |-> EmptyString]

AppIdle ==
  /\ sourceInput = <<>>
  /\ svgCode = EmptyString
  /\ previewLight = EmptyString
  /\ previewDark = EmptyString
  /\ highlight = EmptyString
  /\ narrative = NoNarrative
  /\ editorError = ""
  /\ status = ""
  /\ State = InitialSTATE
  /\ lastDiagram = <<>>
  /\ inflight = <<>>
  /\ exported = NotExported
  /\ rendered = NotRendered
  /\ randomBtn = [disabled |-> FALSE, busy |-> FALSE, loading |-> 0]
  /\ handlerToast = ""

(***************************************************************************)
(* Specification SpecXform: applyAccessibilityTransformations applied to   *)
(* an input document and then again to its own output.                     *)
(***************************************************************************)
OldTitle == Elem("title", <<"old-title">>, "", <<"o">>, <<>>)
OldDesc == Elem("desc", <<"old-desc">>, "", <<"o">>, <<>>)
Rect == Leaf("rect", <<>>)

\* groups that hold a nested title or desc
PlainGroups ==
  {Elem("g", NoId, "", <<>>, k) :
     k \in {<<Leaf("title", <<"n">>)>>,
            <<Leaf("title", <<"n">>), Rect>>,
            <<Leaf("desc", <<"n">>), Rect>>}}

\* the children of a rendered node group: a shape and its label, the label as
\* one <text>, as a <foreignObject> (HTML label), as two <text> runs, with a
\* title from an earlier transformation, or none
NodeKids ==
  {<<Rect, Leaf("text", <<"a">>)>>,
   <<Rect, Leaf("foreignObject", <<"a">>)>>,
   <<Rect, Leaf("text", <<"a">>), Leaf("text", <<"b">>)>>,
   <<Leaf("title", <<"n">>), Rect, Leaf("text", <<"a">>)>>,
   <<Rect>>}

Children ==
  {OldTitle, OldDesc, Leaf("style", <<"x">>)}
  \cup PlainGroups
  \cup {Elem("g", <<"flowchart">>, "node", <<>>, k) : k \in NodeKids}
  \cup {Elem("g", <<"state">>, "node", <<>>, <<Rect, Leaf("text", <<"a">>)>>)}
  \cup {Elem("g", NoId, "edgePath", <<>>, <<Leaf("path", <<>>)>>)}
  \cup {Elem("defs", NoId, "", <<>>, <<Leaf("marker", <<>>)>>)}

Inputs ==
  {Markup(Root(k)) : k \in SeqsUpTo(Children, MaxKids)}
  \cup
  {Malformed(Root(k)) : k \in SeqsUpTo(Children, MaxKids - 1)}

Fields(t) == {Null, Some(<<>>), Some(<<t>>)}
MetaSet == {[title |-> a, description |-> b] : a \in Fields("T"), b \in Fields("D")}

EmptySvg == Markup(Root(<<>>))
NoResult == [threw |-> FALSE, svg |-> EmptySvg, titleId |-> NoId, descId |-> NoId]

XfIdle ==
  /\ svgIn = EmptySvg
  /\ meta = NoMeta
  /\ res = NoResult
  /\ prev = EmptySvg
  /\ calls = 0
  /\ allText = TRUE

InitXform ==
  /\ svgIn \in Inputs
  /\ meta = NoMeta
  /\ res = NoResult
  /\ prev = svgIn
  /\ calls = 0
  /\ clock = 0
  /\ allText = TRUE
  /\ MetaIdle
  /\ AppIdle

Later(t) == {u \in t..(t + 1) : u <= MaxClock}

\* One call applyAccessibilityTransformations(svgIn, m).  Date.now() reads t1
\* and then t2, Math.random() gives r1 and then r2, the parser gives pd.  The
\* next call is made on the string this one returned.
Transform ==
  /\ calls < MaxRuns
  /\ \E m \in MetaSet, t1 \in Later(clock), r1 \in 0..(MaxRnd - 1), r2 \in 0..(MaxRnd - 1),
        pd \in parseFromString(svgIn) :
       \E t2 \in Later(t1) :
         LET titleId == generateUniqueId("title", t1, r1)
             descId  == generateUniqueId("desc", t2, r2)
             out     == applyAccessibilityTransformations(pd, m, titleId, descId)
         IN  /\ res' = [threw |-> out.threw, svg |-> out.svg,
                        titleId |-> titleId, descId |-> descId]
             /\ svgIn' = IF out.threw THEN svgIn ELSE out.svg
             /\ prev' = svgIn
             /\ meta' = m
             /\ clock' = t2
             /\ allText' = (allText /\ Truthy(m.title) /\ Truthy(m.description))
  /\ calls' = calls + 1
  /\ UNCHANGED <<metaVars, appVars>>

NextXform == Transform

SpecXform == InitXform /\ [][NextXform]_vars

(***************************************************************************)
(* Specification SpecMeta: the two text functions applied to every source  *)
(* text of at most MaxLen atoms.                                           *)
(***************************************************************************)
InitMeta ==
  /\ src \in SeqsUpTo(Alphabet, MaxLen)
  /\ pm = NoMeta
  /\ ens = NoEnsured
  /\ mpc = "input"
  /\ ret = NoRet
  /\ XfIdle
  /\ clock = 0
  /\ AppIdle

ParseStep ==
  /\ mpc = "input"
  /\ pm' = parseMermaidMetadata(src)
  /\ mpc' = "parsed"
  /\ UNCHANGED <<src, ens, ret, xfVars, clock, appVars>>

EnsureStep ==
  /\ mpc = "input"
  /\ ens' = ensureMetadata(src)
  /\ mpc' = "ensured"
  /\ UNCHANGED <<src, pm, ret, xfVars, clock, appVars>>

NextMeta == ParseStep \/ EnsureStep

SpecMeta == InitMeta /\ [][NextMeta]_vars

(***************************************************************************)
(* skipFrontmatter.  The atom "---" stands for the fence, three dashes.    *)
(***************************************************************************)
\* String.prototype.split('\n'): the lines of s, at least one
RECURSIVE split(_)
split(s) ==
  LET e == EndOfLine(s, 1)
  IN  IF e > Len(s) THEN <<s>>
      ELSE <<SubSeq(s, 1, e - 1)>> \o split(SubSeq(s, e + 1, Len(s)))

\* Array.prototype.join('\n')
RECURSIVE join(_)
join(lines) ==
  IF Len(lines) = 0 THEN <<>>
  ELSE IF Len(lines) = 1 THEN lines[1]
  ELSE lines[1] \o <<"\n">> \o join(Tail(lines))

Fence == <<"---">>

skipFrontmatter(source) ==
  LET lines == split(Trim(source))
      closing == {i \in 2..Len(lines) : Trim(lines[i]) = Fence}
  IN  IF Trim(lines[1]) = Fence /\ closing # {}
      THEN join(SubSeq(lines, Min(closing) + 1, Len(lines)))
      ELSE source

(***************************************************************************)
(* Specification SpecStrip: skipFrontmatter applied to a source and then   *)
(* to its own result.                                                      *)
(***************************************************************************)
FenceAlphabet == {"---", "\n", " ", "x"}

InitStrip ==
  /\ src \in SeqsUpTo(FenceAlphabet, MaxFenceLen)
  /\ pm = NoMeta
  /\ ens = NoEnsured
  /\ mpc = "strip"
  /\ ret = [n |-> 0, text |-> src, before |-> src]
  /\ XfIdle
  /\ clock = 0
  /\ AppIdle

StripStep ==
  /\ mpc = "strip"
  /\ ret.n < MaxStrips
  /\ ret' = [n |-> ret.n + 1, text |-> skipFrontmatter(ret.text), before |-> ret.text]
  /\ UNCHANGED <<src, pm, ens, mpc, xfVars, clock, appVars>>

SpecStrip == InitStrip /\ [][StripStep]_vars

(***************************************************************************)
(* detectDiagramType.  A declaration keyword is one atom; a text that      *)
(* starts with the keyword and goes on ("stateDiagram-v2") is the atom     *)
(* followed by ordinary atoms.                                             *)
(***************************************************************************)
\* String.prototype.startsWith for a keyword
startsWith(line, kw) == Len(line) > 0 /\ line[1] = kw

detectDiagramType(source) ==
  LET lines == split(Trim(source))
      firstLine == Trim(lines[1])
  IN  IF startsWith(firstLine, "flowchart") \/ startsWith(firstLine, "graph") THEN "flowchart"
      ELSE IF startsWith(firstLine, "pie") THEN "pie"
      ELSE IF startsWith(firstLine, "classDiagram") THEN "classDiagram"
      ELSE IF startsWith(firstLine, "sequenceDiagram") THEN "sequenceDiagram"
      ELSE IF startsWith(firstLine, "gantt") THEN "gantt"
      ELSE IF startsWith(firstLine, "journey") THEN "journey"
      ELSE IF startsWith(firstLine, "mindmap") THEN "mindmap"
      ELSE IF startsWith(firstLine, "timeline") THEN "timeline"
      ELSE IF startsWith(firstLine, "xychart") THEN "xychart"
      ELSE IF startsWith(firstLine, "stateDiagram") THEN "stateDiagram"
      ELSE "unknown"

(***************************************************************************)
(* Specification SpecDetect: detectDiagramType applied to a source: any    *)
(* short text, or a frontmatter block followed by a short text.            *)
(***************************************************************************)
Keywords ==
  {"flowchart", "graph", "pie", "classDiagram", "sequenceDiagram", "gantt", "journey",
   "mindmap", "timeline", "xychart", "stateDiagram", "erDiagram", "gitGraph", "kanban",
   "sankey-beta", "C4Context", "C4Container", "C4Component"}

DetectAlphabet == Keywords \cup {"---", "\n", " ", "x"}

FrontBlocks ==
  {<<"---", "\n", "---", "\n">>,
   <<"---", "\n", "x", "\n", "---", "\n">>,
   <<"---", "\n", "x", "\n", " ", "x", "\n", "---", "\n", "\n">>}

DetectInputs ==
  SeqsUpTo(DetectAlphabet, MaxDetectLen)
  \cup {b \o s : b \in FrontBlocks, s \in SeqsUpTo(DetectAlphabet, MaxDetectLen - 1)}

InitDetect ==
  /\ src \in DetectInputs
  /\ pm = NoMeta
  /\ ens = NoEnsured
  /\ mpc = "detect"
  /\ ret = NoRet
  /\ XfIdle
  /\ clock = 0
  /\ AppIdle

DetectStep ==
  /\ mpc = "detect"
  /\ ret' = [n |-> 1, type |-> detectDiagramType(src)]
  /\ mpc' = "detected"
  /\ UNCHANGED <<src, pm, ens, xfVars, clock, appVars>>

NextDetect == DetectStep

SpecDetect == InitDetect /\ [][NextDetect]_vars

(***************************************************************************)
(* The narrative.  The HTML a generator builds is a sequence of pieces: a  *)
(* literal of the template, a number, or text taken from the source (a     *)
(* sequence of atoms).  The atoms "<", ">" and "&" are the characters      *)
(* escapeHtml rewrites.                                                    *)
(***************************************************************************)
Lit(s) == [k |-> "lit", s |-> <<s>>, n |-> 0]
Num(n) == [k |-> "num", s |-> <<>>, n |-> n]
Txt(t) == [k |-> "txt", s |-> t, n |-> 0]

\* div.textContent = text; return div.innerHTML
escapeHtmlRaw(text) == text

escapeHtml(text) ==
  [i \in 1..Len(text) |->
     IF text[i] = "<" THEN "&lt;"
     ELSE IF text[i] = ">" THEN "&gt;"
     ELSE IF text[i] = "&" THEN "&amp;"
     ELSE text[i]]

\* source.split('\n') without comment lines (and, for the timeline, lines
\* starting with "--") and without blank lines
contentLines(source, dropDashes) ==
  LET RECURSIVE filter(_)
      filter(lines) ==
        IF Len(lines) = 0 THEN <<>>
        ELSE (IF /\ ~startsWith(Trim(lines[1]), "%%")
                 /\ ~(dropDashes /\ startsWith(Trim(lines[1]), "--"))
                 /\ Trim(lines[1]) # <<>>
              THEN <<lines[1]>> ELSE <<>>)
             \o filter(Tail(lines))
  IN  filter(split(source))

\* position of the first atom c at or after p (Len + 1 when there is none)
FirstAt(l, c, p) ==
  LET cand == {q \in p..Len(l) : l[q] = c}
  IN  IF cand = {} THEN Len(l) + 1 ELSE Min(cand)

\* position of the first atom at or after p that is not a blank
SkipSp(l, p) ==
  LET cand == {q \in p..Len(l) : l[q] # " "}
  IN  IF cand = {} THEN Len(l) + 1 ELSE Min(cand)

\* end of the longest run of atoms of set C that starts at p (p - 1: no run)
RunEnd(l, C, p) ==
  LET stop == {q \in p..Len(l) : l[q] \notin C}
  IN  IF stop = {} THEN Len(l) ELSE Min(stop) - 1

\* the positions where a run of atoms of C starts
RunStarts(l, C) == {p \in 1..Len(l) : l[p] \in C /\ (p = 1 \/ l[p - 1] \notin C)}

At(l, p) == IF p >= 1 /\ p <= Len(l) THEN l[p] ELSE "(end)"

\* the result of String.prototype.match when the pattern does not match
NoMatch == [ok |-> FALSE]

\* Map.prototype.set on a map kept as a sequence in insertion order
mapSet(m, key, value) ==
  IF \E i \in 1..Len(m) : m[i].key = key
  THEN [i \in 1..Len(m) |-> IF m[i].key = key THEN [key |-> key, value |-> value] ELSE m[i]]
  ELSE Append(m, [key |-> key, value |-> value])

mapHas(m, key) == \E i \in 1..Len(m) : m[i].key = key

mapGet(m, key) == m[CHOOSE i \in 1..Len(m) : m[i].key = key].value

(***************************************************************************)
(* generateFlowchartNarrative                                              *)
(***************************************************************************)
\* [A-Z0-9]
IdChars == {"A", "B", "X", "Y"}

\* /^([A-Z0-9]+)\[([^\]]+)\]|^([A-Z0-9]+)\{([^}]+)\}/
nodeMatch(line) ==
  LET shape(open, close) ==
        LET e == RunEnd(line, IdChars, 1)
            c == FirstAt(line, close, e + 2)
        IN  IF e >= 1 /\ At(line, e + 1) = open /\ c <= Len(line) /\ c > e + 2
            THEN [ok |-> TRUE, id |-> SubSeq(line, 1, e),
                  text |-> SubSeq(line, e + 2, c - 1), isQuestion |-> (open = "{")]
            ELSE NoMatch
  IN  IF shape("[", "]").ok THEN shape("[", "]") ELSE shape("{", "}")

\* the edge a line gives: the labelled pattern first, then the plain one,
\* each at its leftmost match
edgeOf(line) ==
  LET \* /([A-Z0-9]+)\s*-->\s*\|([^|]+)\|\s*([A-Z0-9]+)/ tried at position p
      edgeLabelMatchAt(p) ==
        LET e == RunEnd(line, IdChars, p)
            a == SkipSp(line, e + 1)
            b == SkipSp(line, a + 1)
            c == FirstAt(line, "|", b + 1)
            d == SkipSp(line, c + 1)
        IN  IF At(line, a) = "-->" /\ At(line, b) = "|" /\ c <= Len(line) /\ c > b + 1
               /\ At(line, d) \in IdChars
            THEN [ok |-> TRUE, from |-> SubSeq(line, p, e),
                  label |-> Some(SubSeq(line, b + 1, c - 1)),
                  to |-> SubSeq(line, d, RunEnd(line, IdChars, d))]
            ELSE NoMatch
      \* /([A-Z0-9]+)\s*-->\s*([A-Z0-9]+)/ tried at position p
      edgeMatchAt(p) ==
        LET e == RunEnd(line, IdChars, p)
            a == SkipSp(line, e + 1)
            b == SkipSp(line, a + 1)
        IN  IF At(line, a) = "-->" /\ At(line, b) \in IdChars
            THEN [ok |-> TRUE, from |-> SubSeq(line, p, e), label |-> Null,
                  to |-> SubSeq(line, b, RunEnd(line, IdChars, b))]
            ELSE NoMatch
      ls == {p \in RunStarts(line, IdChars) : edgeLabelMatchAt(p).ok}
      ps == {p \in RunStarts(line, IdChars) : edgeMatchAt(p).ok}
  IN  IF ls # {} THEN edgeLabelMatchAt(Min(ls))
      ELSE IF ps # {} THEN edgeMatchAt(Min(ps))
      ELSE NoMatch

RECURSIVE flowNodes(_)
\* the nodes map after the lines have been read
flowNodes(lines) ==
  IF Len(lines) = 0 THEN <<>>
  ELSE LET rest == flowNodes(SubSeq(lines, 1, Len(lines) - 1))
           nm   == nodeMatch(Trim(lines[Len(lines)]))
       IN  IF nm.ok
           THEN mapSet(rest, nm.id, [text |-> nm.text, isQuestion |-> nm.isQuestion])
           ELSE rest

RECURSIVE flowEdges(_)
\* the edges array after the lines have been read
flowEdges(lines) ==
  IF Len(lines) = 0 THEN <<>>
  ELSE LET em == edgeOf(Trim(lines[1]))
       IN  (IF em.ok THEN <<em>> ELSE <<>>) \o flowEdges(Tail(lines))

generateFlowchartNarrative(source) ==
  LET all   == contentLines(source, FALSE)
      lines == SubSeq(all, 2, Len(all))
      nodes == flowNodes(lines)
      edges == flowEdges(lines)
      questions == Cardinality({i \in 1..Len(nodes) : nodes[i].value.isQuestion})
      plural(n) == IF n # 1 THEN <<Lit("s")>> ELSE <<>>
      \* the list item of one edge (nothing when an end is not a recorded node)
      item(edge) ==
        IF ~(mapHas(nodes, edge.from) /\ mapHas(nodes, edge.to)) THEN <<>>
        ELSE LET fromNode == mapGet(nodes, edge.from)
                 toNode   == mapGet(nodes, edge.to)
             IN  IF fromNode.isQuestion
                 THEN IF Truthy(edge.label)
                      THEN <<Lit("<li>If <em>"), Txt(escapeHtml(fromNode.text)),
                             Lit("</em> is <strong>"), Txt(escapeHtml(edge.label.v)),
                             Lit("</strong>, then -> <strong>"),
                             Txt(escapeHtml(toNode.text)), Lit("</strong></li>")>>
                      ELSE <<Lit("<li>From <em>"), Txt(escapeHtml(fromNode.text)),
                             Lit("</em> -> <strong>"), Txt(escapeHtml(toNode.text)),
                             Lit("</strong></li>")>>
                 ELSE IF Truthy(edge.label)
                      THEN <<Lit("<li>After <strong>"), Txt(escapeHtml(fromNode.text)),
                             Lit("</strong>, <em>"), Txt(escapeHtml(edge.label.v)),
                             Lit("</em> -> <strong>"), Txt(escapeHtml(toNode.text)),
                             Lit("</strong></li>")>>
                      ELSE <<Lit("<li><strong>"), Txt(escapeHtml(fromNode.text)),
                             Lit("</strong> -> <strong>"), Txt(escapeHtml(toNode.text)),
                             Lit("</strong></li>")>>
      RECURSIVE items(_)
      items(es) == IF Len(es) = 0 THEN <<>> ELSE item(es[1]) \o items(Tail(es))
  IN  <<Lit("<p><strong>Flow:</strong></p><ol>")>>
      \o (IF Len(nodes) > 0
          THEN <<Lit("<li>Start at: <strong>"), Txt(escapeHtml(nodes[1].value.text)),
                 Lit("</strong></li>")>>
               \o items(edges)
          ELSE <<Lit("<li>No flowchart steps detected.</li>")>>)
      \o <<Lit("</ol>"), Lit("<p><strong>Structure:</strong> "), Num(Len(nodes)), Lit(" node")>>
      \o plural(Len(nodes))
      \o <<Lit(", "), Num(Len(edges)), Lit(" connection")>>
      \o plural(Len(edges))
      \o (IF questions > 0
          THEN <<Lit(", "), Num(questions), Lit(" decision point")>> \o plural(questions)
          ELSE <<>>)
      \o <<Lit("</p>")>>

(***************************************************************************)
(* generatePieNarrative.  A number of the source is a run of digit atoms;  *)
(* the sources here carry no decimal point, so every value is a natural    *)
(* number.  A percentage is kept in tenths of a percent.                   *)
(***************************************************************************)
\* \d
Digits == {"0", "1", "2", "3", "4", "5"}

RECURSIVE parseFloat(_)
\* the value of a run of digits
parseFloat(ds) ==
  LET d   == ds[Len(ds)]
      val == IF d = "0" THEN 0 ELSE IF d = "1" THEN 1 ELSE IF d = "2" THEN 2
             ELSE IF d = "3" THEN 3 ELSE IF d = "4" THEN 4 ELSE 5
  IN  IF Len(ds) = 0 THEN 0 ELSE 10 * parseFloat(SubSeq(ds, 1, Len(ds) - 1)) + val

\* /["']?([^"':]+)["']?\s*:\s*(\d+(?:\.\d+)?)/ at its leftmost match; the
\* atoms "'" and "q" are the single and the double quote
pieMatch(line) ==
  LET Quotes == {"'", "q"}
      matchAt(p) ==
        LET s == IF At(line, p) \in Quotes THEN p + 1 ELSE p
            e == RunEnd(line,
                   {c \in {line[i] : i \in 1..Len(line)} : c \notin Quotes \cup {":"}}, s)
            q == IF At(line, e + 1) \in Quotes THEN e + 2 ELSE e + 1
            a == SkipSp(line, q)
            b == SkipSp(line, a + 1)
        IN  IF e >= s /\ At(line, a) = ":" /\ At(line, b) \in Digits
            THEN [ok |-> TRUE, label |-> Trim(SubSeq(line, s, e)),
                  value |-> parseFloat(SubSeq(line, b, RunEnd(line, Digits, b)))]
            ELSE NoMatch
      ps == {p \in 1..Len(line) : matchAt(p).ok}
  IN  IF ps = {} THEN NoMatch ELSE matchAt(Min(ps))

RECURSIVE pieData(_)
\* the data array after the lines have been read
pieData(lines) ==
  IF Len(lines) = 0 THEN <<>>
  ELSE LET m == pieMatch(Trim(lines[1]))
       IN  (IF m.ok THEN <<[label |-> m.label, value |-> m.value]>> ELSE <<>>)
           \o pieData(Tail(lines))

RECURSIVE sumValues(_)
\* total += value, over the data
sumValues(data) == IF Len(data) = 0 THEN 0 ELSE data[1].value + sumValues(Tail(data))

RECURSIVE sortUnstable(_)
sortUnstable(data) ==
  IF Len(data) <= 1 THEN data
  ELSE LET rest == sortUnstable(SubSeq(data, 1, Len(data) - 1))
           x    == data[Len(data)]
           k    == Cardinality({i \in 1..Len(rest) : rest[i].value > x.value})
       IN  SubSeq(rest, 1, k) \o <<x>> \o SubSeq(rest, k + 1, Len(rest))

\* data.sort((a, b) => b.value - a.value): stable, larger values first
RECURSIVE sortDescending(_)
sortDescending(data) ==
  IF Len(data) <= 1 THEN data
  ELSE LET rest == sortDescending(SubSeq(data, 1, Len(data) - 1))
           x    == data[Len(data)]
           k    == Cardinality({i \in 1..Len(rest) : rest[i].value >= x.value})
       IN  SubSeq(rest, 1, k) \o <<x>> \o SubSeq(rest, k + 1, Len(rest))

\* ((value / total) * 100).toFixed(1) in tenths of a percent; tieUp tells how
\* the floating-point quotient falls when the exact one lies midway
toFixed1(value, total, tieUp) ==
  LET lo  == (value * 1000) \div total
      rem == (value * 1000) % total
  IN  IF 2 * rem > total \/ (2 * rem = total /\ tieUp) THEN lo + 1 ELSE lo

generatePieNarrative(source, tieUp) ==
  LET all   == contentLines(source, FALSE)
      data  == pieData(SubSeq(all, 2, Len(all)))
      total == sumValues(data)
      RECURSIVE items(_)
      items(d) ==
        IF Len(d) = 0 THEN <<>>
        ELSE <<Lit("<li><strong>"), Txt(escapeHtml(d[1].label)), Lit("</strong>: "),
               Num(d[1].value), Lit(" ("),
               [k |-> "pct", s |-> <<>>,
                n |-> IF total > 0 THEN toFixed1(d[1].value, total, tieUp) ELSE 0],
               Lit("%)</li>")>>
             \o items(Tail(d))
  IN  <<Lit("<p><strong>Data breakdown:</strong></p><ul>")>>
      \o items(sortDescending(data))
      \o <<Lit("</ul>"), Lit("<p><strong>Total:</strong> "), Num(total), Lit("</p>")>>

(***************************************************************************)
(* generateGanttNarrative                                                  *)
(***************************************************************************)
\* the <p><em>title</em></p> of the first line that starts with "title";
\* String.prototype.replace(/title\s+/, '') removes the first "title" that
\* blanks follow, together with those blanks
titlePieces(lines) ==
  LET ts   == {i \in 1..Len(lines) : startsWith(Trim(lines[i]), "title")}
      line == lines[Min(ts)]
      ps   == {p \in 1..Len(line) : line[p] = "title" /\ At(line, p + 1) = " "}
      replaced == IF ps = {} THEN line
                  ELSE SubSeq(line, 1, Min(ps) - 1)
                       \o SubSeq(line, SkipSp(line, Min(ps) + 1), Len(line))
  IN  IF ts = {} THEN <<>>
      ELSE <<Lit("<p><em>"), Txt(escapeHtml(Trim(replaced))), Lit("</em></p>")>>

\* /^section\s+(.+)$/ on a trimmed line
sectionMatch(trimmed) ==
  IF startsWith(trimmed, "section") /\ At(trimmed, 2) = " " /\ SkipSp(trimmed, 2) <= Len(trimmed)
  THEN [ok |-> TRUE, name |-> Trim(SubSeq(trimmed, SkipSp(trimmed, 2), Len(trimmed)))]
  ELSE NoMatch

\* String.prototype.includes for one atom
includes(s, c) == \E i \in 1..Len(s) : s[i] = c

\* /^([^:]+)\s*:\s*(.+)$/ on a trimmed line, with the tags of its parameters
ganttTaskMatch(trimmed) ==
  LET c      == FirstAt(trimmed, ":", 1)
      params == Trim(SubSeq(trimmed, c + 1, Len(trimmed)))
      tag(word, name) == IF includes(params, word) THEN <<name>> ELSE <<>>
  IN  IF c > 1 /\ c < Len(trimmed)
      THEN [ok |-> TRUE, name |-> Trim(SubSeq(trimmed, 1, c - 1)),
            tags |-> tag("milestone", "milestone") \o tag("done", "completed")
                     \o tag("active", "in progress") \o tag("crit", "critical")]
      ELSE NoMatch

RECURSIVE ganttSections(_)
\* the sections, each with its tasks, after the lines have been read
ganttSections(lines) ==
  IF Len(lines) = 0 THEN <<>>
  ELSE LET before  == ganttSections(SubSeq(lines, 1, Len(lines) - 1))
           trimmed == Trim(lines[Len(lines)])
           sm      == sectionMatch(trimmed)
           tm      == ganttTaskMatch(trimmed)
       IN  IF sm.ok THEN Append(before, [name |-> sm.name, tasks |-> <<>>])
           ELSE IF trimmed[1] \in {"gantt", "title", "dateFormat", "axisFormat", "excludes",
                                   "tickInterval", "weekend"}
           THEN before
           ELSE IF tm.ok /\ Len(before) > 0
           THEN [before EXCEPT ![Len(before)].tasks =
                   Append(@, [name |-> tm.name, tags |-> tm.tags])]
           ELSE before

generateGanttNarrative(source) ==
  LET lines    == contentLines(source, FALSE)
      sections == ganttSections(lines)
      RECURSIVE joinTags(_)
      joinTags(tags) ==
        IF Len(tags) = 0 THEN <<>>
        ELSE IF Len(tags) = 1 THEN <<Lit(tags[1])>>
        ELSE <<Lit(tags[1]), Lit(", ")>> \o joinTags(Tail(tags))
      RECURSIVE taskItems(_)
      taskItems(tasks) ==
        IF Len(tasks) = 0 THEN <<>>
        ELSE <<Lit("<li>"), Txt(escapeHtml(tasks[1].name))>>
             \o (IF Len(tasks[1].tags) > 0
                 THEN <<Lit(" <em>(")>> \o joinTags(tasks[1].tags) \o <<Lit(")</em>")>>
                 ELSE <<>>)
             \o <<Lit("</li>")>>
             \o taskItems(Tail(tasks))
      RECURSIVE sectionItems(_)
      sectionItems(ss) ==
        IF Len(ss) = 0 THEN <<>>
        ELSE <<Lit("<li><strong>"), Txt(escapeHtml(ss[1].name)), Lit("</strong>")>>
             \o (IF Len(ss[1].tasks) > 0
                 THEN <<Lit("<ul>")>> \o taskItems(ss[1].tasks) \o <<Lit("</ul>")>>
                 ELSE <<>>)
             \o <<Lit("</li>")>>
             \o sectionItems(Tail(ss))
  IN  <<Lit("<p><strong>Project Timeline:</strong></p>")>>
      \o titlePieces(lines)
      \o (IF Len(sections) > 0
          THEN <<Lit("<ul>")>> \o sectionItems(sections) \o <<Lit("</ul>")>>
          ELSE <<>>)

(***************************************************************************)
(* generateClassDiagramNarrative.  \w is every atom that is not            *)
(* punctuation; the relationship operators are atoms of their own.         *)
(***************************************************************************)
\* the atoms of a line that \w matches
Word(line) ==
  {line[i] : i \in 1..Len(line)}
  \ {" ", "\n", ":", "::icon", ",", "<", ">", "&", "[", "]", "{", "}", "(", ")", "|", "+",
     "'", "q", "%%", "---", "-->", "--", "..", "<..", "<|--", "(end)"}

\* /class\s+(\w+)/
classMatch(line) ==
  LET ps == {p \in 1..Len(line) :
               /\ line[p] = "class" /\ At(line, p + 1) = " "
               /\ At(line, SkipSp(line, p + 1)) \in Word(line)}
      b  == SkipSp(line, Min(ps) + 1)
  IN  IF ps = {} THEN NoMatch
      ELSE [ok |-> TRUE, name |-> SubSeq(line, b, RunEnd(line, Word(line), b))]

\* /(\w+)\s*:\s*([+\-#~])?(.+)/ at its leftmost match
memberMatch(line) ==
  LET matchAt(p) ==
        LET e == RunEnd(line, Word(line), p)
            a == SkipSp(line, e + 1)
            b == SkipSp(line, a + 1)
            m == IF At(line, b) = "+" /\ b < Len(line) THEN b + 1 ELSE b
        IN  IF At(line, a) = ":" /\ a < Len(line)
            THEN [ok |-> TRUE, name |-> SubSeq(line, p, e),
                  member |-> SubSeq(line, m, Len(line))]
            ELSE NoMatch
      ps == {p \in RunStarts(line, Word(line)) : matchAt(p).ok}
  IN  IF ps = {} THEN NoMatch ELSE matchAt(Min(ps))

\* /(\w+)\s*(<\||--\||--|\.\.|<\.\.|o--)\s*(\w+)/ at its leftmost match.  Of
\* the alternatives, "--", ".." and "<.." are whole atoms here; the atoms
\* "<|--" and "-->" match none: after their first two characters comes a
\* character that is neither blank nor \w
relMatch(line) ==
  LET matchAt(p) ==
        LET e == RunEnd(line, Word(line), p)
            a == SkipSp(line, e + 1)
            b == SkipSp(line, a + 1)
        IN  IF At(line, a) \in {"--", "..", "<.."} /\ At(line, b) \in Word(line)
            THEN [ok |-> TRUE, from |-> SubSeq(line, p, e), type |-> line[a],
                  to |-> SubSeq(line, b, RunEnd(line, Word(line), b))]
            ELSE NoMatch
      ps == {p \in RunStarts(line, Word(line)) : matchAt(p).ok}
  IN  IF ps = {} THEN NoMatch ELSE matchAt(Min(ps))

RECURSIVE classParse(_)
\* classes (a map in insertion order) and relationships after the lines
classParse(lines) ==
  IF Len(lines) = 0 THEN [classes |-> <<>>, relationships |-> <<>>]
  ELSE LET before == classParse(SubSeq(lines, 1, Len(lines) - 1))
           line   == Trim(lines[Len(lines)])
           cm     == classMatch(line)
           mm     == memberMatch(line)
           rm     == relMatch(line)
           \* member.includes('()')
           isCall == \E i \in 1..(Len(mm.member) - 1) :
                       mm.member[i] = "(" /\ mm.member[i + 1] = ")"
           c1     == IF cm.ok /\ ~mapHas(before.classes, cm.name)
                     THEN mapSet(before.classes, cm.name, [methods |-> <<>>, properties |-> <<>>])
                     ELSE before.classes
           c2     == IF mm.ok /\ mapHas(c1, mm.name)
                     THEN mapSet(c1, mm.name,
                            IF isCall
                            THEN [mapGet(c1, mm.name) EXCEPT !.methods = Append(@, mm.member)]
                            ELSE [mapGet(c1, mm.name) EXCEPT !.properties = Append(@, mm.member)])
                     ELSE c1
       IN  [classes |-> c2,
            relationships |-> IF rm.ok THEN Append(before.relationships, rm)
                              ELSE before.relationships]

generateClassDiagramNarrative(source) ==
  LET all    == contentLines(source, FALSE)
      parsed == classParse(SubSeq(all, 2, Len(all)))
      relType(type) ==
        IF type = "<|--" THEN "inherits from" ELSE IF type = "-->" THEN "uses"
        ELSE "relates to"
      RECURSIVE joinEscaped(_)
      \* methods.map(m => escapeHtml(m)).join(', ')
      joinEscaped(ms) ==
        IF Len(ms) = 0 THEN <<>>
        ELSE IF Len(ms) = 1 THEN <<Txt(escapeHtml(ms[1]))>>
        ELSE <<Txt(escapeHtml(ms[1])), Lit(", ")>> \o joinEscaped(Tail(ms))
      RECURSIVE classItems(_)
      classItems(classes) ==
        IF Len(classes) = 0 THEN <<>>
        ELSE <<Lit("<li><strong>"), Txt(escapeHtml(classes[1].key)), Lit("</strong>")>>
             \o (IF Len(classes[1].value.methods) > 0
                 THEN <<Lit(" with methods: ")>> \o joinEscaped(classes[1].value.methods)
                 ELSE <<>>)
             \o <<Lit("</li>")>>
             \o classItems(Tail(classes))
      RECURSIVE relItems(_)
      relItems(rels) ==
        IF Len(rels) = 0 THEN <<>>
        ELSE <<Lit("<li><strong>"), Txt(escapeHtml(rels[1].from)), Lit("</strong> "),
               Lit(relType(rels[1].type)), Lit(" <strong>"), Txt(escapeHtml(rels[1].to)),
               Lit("</strong></li>")>>
             \o relItems(Tail(rels))
  IN  <<Lit("<p><strong>Class structure:</strong></p><ul>")>>
      \o classItems(parsed.classes)
      \o <<Lit("</ul>")>>
      \o (IF Len(parsed.relationships) > 0
          THEN <<Lit("<p><strong>Relationships:</strong></p><ul>")>>
               \o relItems(parsed.relationships) \o <<Lit("</ul>")>>
          ELSE <<>>)

(***************************************************************************)
(* generateUserJourneyNarrative                                            *)
(***************************************************************************)
RECURSIVE splitAt(_, _)
\* String.prototype.split(c)
splitAt(s, c) ==
  LET p == FirstAt(s, c, 1)
  IN  IF p > Len(s) THEN <<s>>
      ELSE <<SubSeq(s, 1, p - 1)>> \o splitAt(SubSeq(s, p + 1, Len(s)), c)

RECURSIVE joinWith(_, _)
\* Array.prototype.join(sep)
joinWith(parts, sep) ==
  IF Len(parts) = 0 THEN <<>>
  ELSE IF Len(parts) = 1 THEN parts[1]
  ELSE parts[1] \o sep \o joinWith(Tail(parts), sep)

\* /^([^:]+)\s*:\s*(\d+)\s*:\s*(.+)$/ on a trimmed line
journeyTaskMatch(trimmed) ==
  LET c == FirstAt(trimmed, ":", 1)
      d == SkipSp(trimmed, c + 1)
      e == RunEnd(trimmed, Digits, d)
      f == SkipSp(trimmed, e + 1)
      actors == splitAt(SubSeq(trimmed, f + 1, Len(trimmed)), ",")
  IN  IF c > 1 /\ At(trimmed, d) \in Digits /\ At(trimmed, f) = ":" /\ f < Len(trimmed)
      THEN [ok |-> TRUE, name |-> Trim(SubSeq(trimmed, 1, c - 1)),
            score |-> parseFloat(SubSeq(trimmed, d, e)),
            actors |-> [i \in 1..Len(actors) |-> Trim(actors[i])]]
      ELSE NoMatch

RECURSIVE journeySections(_)
\* the sections, each with its steps, after the lines have been read
journeySections(lines) ==
  IF Len(lines) = 0 THEN <<>>
  ELSE LET before  == journeySections(SubSeq(lines, 1, Len(lines) - 1))
           trimmed == Trim(lines[Len(lines)])
           sm      == sectionMatch(trimmed)
           tm      == journeyTaskMatch(trimmed)
       IN  IF sm.ok THEN Append(before, [name |-> sm.name, steps |-> <<>>])
           ELSE IF trimmed[1] \in {"journey", "title"} THEN before
           ELSE IF tm.ok /\ Len(before) > 0
           THEN [before EXCEPT ![Len(before)].steps =
                   Append(@, [name |-> tm.name, score |-> tm.score, actors |-> tm.actors])]
           ELSE before

generateUserJourneyNarrative(source) ==
  LET lines == contentLines(source, FALSE)
      satisfaction(score) ==
        IF score >= 4 THEN "positive" ELSE IF score >= 3 THEN "neutral" ELSE "negative"
      RECURSIVE stepItems(_)
      stepItems(steps) ==
        IF Len(steps) = 0 THEN <<>>
        ELSE <<Lit("<li><strong>"), Txt(escapeHtml(steps[1].name)), Lit("</strong>"),
               Txt(escapeHtml(IF Len(steps[1].actors) > 0
                              THEN <<" (by ">> \o joinWith(steps[1].actors, <<",", " ">>)
                                   \o <<")">>
                              ELSE <<>>)),
               Lit(" - <em>"), Lit(satisfaction(steps[1].score)), Lit(" experience ("),
               Num(steps[1].score), Lit("/5)</em></li>")>>
             \o stepItems(Tail(steps))
      RECURSIVE sectionItems(_)
      sectionItems(ss) ==
        IF Len(ss) = 0 THEN <<>>
        ELSE <<Lit("<p><strong>"), Txt(escapeHtml(ss[1].name)), Lit(":</strong></p>")>>
             \o (IF Len(ss[1].steps) > 0
                 THEN <<Lit("<ol>")>> \o stepItems(ss[1].steps) \o <<Lit("</ol>")>>
                 ELSE <<>>)
             \o sectionItems(Tail(ss))
  IN  <<Lit("<p><strong>User Journey:</strong></p>")>>
      \o titlePieces(lines)
      \o sectionItems(journeySections(lines))

(***************************************************************************)
(* generateMindmapNarrative                                                *)
(***************************************************************************)
\* the text of a node without its shape markers and icon
displayText(text) ==
  LET \* String.prototype.replace(/^\w+<opens>/, '')
      start(t, opens) ==
        LET e == RunEnd(t, Word(t), 1)
        IN  IF e >= 1 /\ e + Len(opens) <= Len(t) /\ SubSeq(t, e + 1, e + Len(opens)) = opens
            THEN SubSeq(t, e + Len(opens) + 1, Len(t))
            ELSE t
      \* String.prototype.replace(/<closes>$/, '')
      end(t, closes) ==
        IF Len(t) >= Len(closes) /\ SubSeq(t, Len(t) - Len(closes) + 1, Len(t)) = closes
        THEN SubSeq(t, 1, Len(t) - Len(closes))
        ELSE t
      t1 == end(start(text, <<"[">>), <<"]">>)
      t2 == end(start(t1, <<"(">>), <<")">>)
      t3 == end(start(t2, <<"{", "{">>), <<"}", "}">>)
      t4 == end(start(t3, <<"(", "(">>), <<")", ")">>)
      t5 == end(start(t4, <<")", ")">>), <<"(", "(">>)
      t6 == end(start(t5, <<")">>), <<"(">>)
  IN  \* String.prototype.replace(/::icon.*$/i, '')
      SubSeq(t6, 1, FirstAt(t6, "::icon", 1) - 1)

RECURSIVE mindmapNodes(_)
\* the nodes in source order, each with its depth in the tree: the length
\* of the stack when the node is pushed
mindmapNodes(lines) ==
  IF Len(lines) = 0 THEN <<>>
  ELSE LET before == mindmapNodes(SubSeq(lines, 1, Len(lines) - 1))
           line   == lines[Len(lines)]
           stack  == IF Len(before) = 0 THEN 0 ELSE before[Len(before)].depth + 1
           \* Math.floor(indentMatch[1].length / 2)
           indentLevel == (SkipSp(line, 1) - 1) \div 2
       IN  Append(before, [text |-> Trim(displayText(Trim(line))),
                           depth |-> Min({stack, indentLevel})])

generateMindmapNarrative(source) ==
  LET all   == contentLines(source, FALSE)
      nodes == mindmapNodes(SubSeq(all, 2, Len(all)))
      RECURSIVE closeLevels(_, _)
      \* the end tags of the open nodes at depths from down to to
      closeLevels(from, to) ==
        IF from < to THEN <<>>
        ELSE <<Lit("</ul>")>> \o (IF from > 0 THEN <<Lit("</li>")>> ELSE <<>>)
             \o closeLevels(from - 1, to)
      RECURSIVE renderNode(_)
      \* renderNode over the nodes from position i on
      renderNode(i) ==
        IF i > Len(nodes) THEN <<>>
        ELSE LET d    == nodes[i].depth
                 next == IF i < Len(nodes) THEN nodes[i + 1].depth ELSE 0
             IN  (IF d = 0
                  THEN <<Lit("<p><strong>"), Txt(escapeHtml(nodes[i].text)),
                         Lit("</strong></p>")>>
                  ELSE <<Lit("<li>"), Txt(escapeHtml(nodes[i].text))>>)
                 \o (IF next = d + 1 THEN <<Lit("<ul>")>>
                     ELSE (IF d > 0 THEN <<Lit("</li>")>> ELSE <<>>)
                          \o closeLevels(d - 1, next))
                 \o renderNode(i + 1)
  IN  <<Lit("<p><strong>Mind Map Structure:</strong></p>")>>
      \o (IF Len(nodes) > 0 THEN renderNode(1)
          ELSE <<Lit("<p><em>Empty mind map structure</em></p>")>>)

(***************************************************************************)
(* generateTimelineNarrative                                               *)
(***************************************************************************)
\* the markup of one section: its heading, when it has a name, and its events
renderEvents(currentSection, events) ==
  LET RECURSIVE eventItems(_)
      eventItems(es) ==
        IF Len(es) = 0 THEN <<>>
        ELSE <<Lit("<li>"), Txt(escapeHtml(es[1])), Lit("</li>")>> \o eventItems(Tail(es))
  IN  IF Len(events) = 0 THEN <<>>
      ELSE (IF currentSection # <<>>
            THEN <<Lit("<h4>"), Txt(escapeHtml(currentSection)), Lit("</h4>")>> ELSE <<>>)
           \o <<Lit("<ul>")>> \o eventItems(events) \o <<Lit("</ul>")>>

RECURSIVE timelineRead(_)
\* narrative so far, current section and pending events after the lines
timelineRead(lines) ==
  IF Len(lines) = 0 THEN [narrative |-> <<>>, currentSection |-> <<>>, events |-> <<>>]
  ELSE LET before  == timelineRead(SubSeq(lines, 1, Len(lines) - 1))
           trimmed == Trim(lines[Len(lines)])
           parts   == splitAt(trimmed, ":")
           after   == Trim(joinWith(Tail(parts), <<":">>))
           period  == Trim(parts[1])
       IN  IF includes(trimmed, "section") /\ includes(trimmed, ":")
           THEN [narrative |-> before.narrative
                                 \o renderEvents(before.currentSection, before.events),
                 currentSection |-> after, events |-> <<>>]
           ELSE IF includes(trimmed, ":")
           THEN [before EXCEPT !.events =
                   Append(@, IF after # <<>> THEN period \o <<":", " ">> \o after ELSE period)]
           ELSE before

generateTimelineNarrative(source) ==
  LET all   == contentLines(source, TRUE)
      lines == SubSeq(all, 2, Len(all))
      read  == timelineRead(lines)
  IN  <<Lit("<p><strong>Timeline Events:</strong></p>")>>
      \o read.narrative
      \o renderEvents(read.currentSection, read.events)
      \o (IF Len(lines) = 0 THEN <<Lit("<p><em>Empty timeline</em></p>")>> ELSE <<>>)

(***************************************************************************)
(* generateXyChartNarrative                                                *)
(***************************************************************************)
RECURSIVE xyRead(_)
\* axis labels and datasets after the lines have been read
xyRead(lines) ==
  IF Len(lines) = 0 THEN [xLabel |-> <<"X-Axis">>, yLabel |-> <<"Y-Axis">>, datasets |-> <<>>]
  ELSE LET before  == xyRead(SubSeq(lines, 1, Len(lines) - 1))
           trimmed == Trim(lines[Len(lines)])
           \* trimmed.replace(keyword, '').trim() || fallback
           rest    == Trim(Tail(trimmed))
           label(fallback) == IF rest # <<>> THEN rest ELSE <<fallback>>
       IN  IF startsWith(trimmed, "x-axis")
           THEN [before EXCEPT !.xLabel = label("X-Axis")]
           ELSE IF startsWith(trimmed, "y-axis")
           THEN [before EXCEPT !.yLabel = label("Y-Axis")]
           ELSE IF (startsWith(trimmed, "line") \/ startsWith(trimmed, "bar"))
                   /\ At(trimmed, 2) = " " /\ SkipSp(trimmed, 2) <= Len(trimmed)
           THEN [before EXCEPT !.datasets =
                   Append(@, [type |-> trimmed[1],
                              dataStr |-> SubSeq(trimmed, SkipSp(trimmed, 2), Len(trimmed))])]
           ELSE before

generateXyChartNarrative(source) ==
  LET read == xyRead(contentLines(source, FALSE))
      RECURSIVE datasetItems(_)
      datasetItems(datasets) ==
        IF Len(datasets) = 0 THEN <<>>
        ELSE <<Lit("<li>"), Lit(IF datasets[1].type = "line" THEN "Line" ELSE "Bar"),
               Lit(": "), Txt(escapeHtml(datasets[1].dataStr)), Lit("</li>")>>
             \o datasetItems(Tail(datasets))
  IN  <<Lit("<p><strong>Chart Data:</strong></p>"), Lit("<p>Axes: "),
        Txt(escapeHtml(read.xLabel)), Lit(" vs "), Txt(escapeHtml(read.yLabel)), Lit("</p>")>>
      \o (IF Len(read.datasets) > 0
          THEN <<Lit("<p><strong>Datasets:</strong></p><ul>")>>
               \o datasetItems(read.datasets) \o <<Lit("</ul>")>>
          ELSE <<>>)

(***************************************************************************)
(* The markup generateDiagramNarrative writes into the narrative region.   *)
(***************************************************************************)
narrativeHtml(mermaidSource, metadata, tieUp) ==
  LET diagramType == detectDiagramType(mermaidSource)
  IN  (IF Truthy(metadata.title)
       THEN <<Lit("<h3>"), Txt(escapeHtml(metadata.title.v)), Lit("</h3>")>> ELSE <<>>)
      \o (IF Truthy(metadata.description)
          THEN <<Lit("<p><em>"), Txt(escapeHtml(metadata.description.v)), Lit("</em></p>")>>
          ELSE <<>>)
      \o (IF diagramType = "flowchart" THEN generateFlowchartNarrative(mermaidSource)
          ELSE IF diagramType = "pie" THEN generatePieNarrative(mermaidSource, tieUp)
          ELSE IF diagramType = "classDiagram" THEN generateClassDiagramNarrative(mermaidSource)
          ELSE IF diagramType = "gantt" THEN generateGanttNarrative(mermaidSource)
          ELSE IF diagramType = "journey" THEN generateUserJourneyNarrative(mermaidSource)
          ELSE IF diagramType = "mindmap" THEN generateMindmapNarrative(mermaidSource)
          ELSE IF diagramType = "timeline" THEN generateTimelineNarrative(mermaidSource)
          ELSE IF diagramType = "xychart" THEN generateXyChartNarrative(mermaidSource)
          ELSE <<Lit("<p>This is a "), Lit(diagramType), Lit(" diagram.</p>")>>)

(***************************************************************************)
(* Specification SpecNarr: the narrative of a source.  A source is a       *)
(* declaration line followed by at most MaxNarrLines lines, each one of    *)
(* the line shapes of its dialect or a line no pattern matches.            *)
(***************************************************************************)
\* the declaration of each dialect and the lines its sources are made of
Dialects ==
  LET FlowLines ==
        {<<"A", "[", "a", "]">>, <<" ", "B", "{", "<", "}">>, <<"A", "-->", "B">>,
         <<"B", " ", "-->", "|", "&", "|", " ", "B">>, <<"A", " ", "-->", " ", "A">>,
         <<"X", "[", "a", "]", "-->", "Y", "[", "b", "]">>}
      PieLines ==
        {<<"q", "a", "q", " ", ":", " ", "1">>, <<"b", ":", "1">>, <<" ", "<", ":", "2">>,
         <<"c", ":", "0">>, <<"d", ":", "1", "4">>, <<"title", " ", ">">>}
      ClassLines ==
        {<<"class", " ", "A">>, <<"class", " ", "B", " ", "{">>,
         <<"A", " ", ":", " ", "+", "m", "<", "(", ")">>, <<"A", ":", "p">>,
         <<"A", " ", "<|--", " ", "B">>, <<"A", "--", "B">>, <<"B", " ", "..", " ", "A">>,
         <<"A", " ", "-->", " ", "B">>}
      GanttLines ==
        {<<"title", " ", "<">>, <<"section", " ", "s">>, <<" ", "section", " ", ">">>,
         <<"a", " ", ":", "done", ",", " ", "crit">>, <<"<", ":", "x">>,
         <<"dateFormat", " ", "x">>}
      JourneyLines ==
        {<<"title", " ", "&">>, <<"section", " ", "<">>,
         <<"a", ":", " ", "5", ":", " ", "Me", ",", " ", "<">>,
         <<">", " ", ":", "2", ":", "x">>, <<"b", ":", "3", ":", "x">>,
         <<"c", ":", "0", ":", "x">>}
      MindmapLines ==
        {<<"r", "(", "(", "a", ")", ")">>, <<" ", " ", "b">>,
         <<" ", " ", " ", " ", "c", "[", "<", "]">>,
         <<" ", " ", "d", "::icon", "(", "x", ")">>, <<">">>}
      TimelineLines ==
        {<<"a", " ", ":", " ", "<">>, <<"section", " ", ":", ">">>, <<"b", ":">>,
         <<"--", "x">>, <<"title", " ", "x">>}
      XyLines ==
        {<<"x-axis", " ", "<">>, <<"y-axis", " ", "b">>, <<"line", " ", "[", "1", "]">>,
         <<"bar", " ", ">">>, <<"bar">>, <<"title", " ", "x">>}
      OtherLines == {<<"A", "-->", "B">>, <<"<">>}
  IN  {[decl |-> <<"flowchart", " ", "TD">>, lines |-> FlowLines],
       [decl |-> <<"pie">>, lines |-> PieLines],
       [decl |-> <<"classDiagram">>, lines |-> ClassLines],
       [decl |-> <<"gantt">>, lines |-> GanttLines],
       [decl |-> <<"journey">>, lines |-> JourneyLines],
       [decl |-> <<"mindmap">>, lines |-> MindmapLines],
       [decl |-> <<"timeline">>, lines |-> TimelineLines],
       [decl |-> <<"xychart">>, lines |-> XyLines],
       [decl |-> <<"sequenceDiagram">>, lines |-> OtherLines],
       [decl |-> <<"stateDiagram", "x">>, lines |-> OtherLines],
       [decl |-> <<"erDiagram">>, lines |-> OtherLines],
       [decl |-> <<"x">>, lines |-> OtherLines]}

\* the sources: a declaration and lines of its dialect, a line no pattern
\* matches (x) or a comment
NarrInputs ==
  UNION {{join(<<d.decl>> \o ls) :
            ls \in SeqsUpTo(d.lines \cup {<<"x">>, <<"%%", " ", "x">>}, MaxNarrLines)} :
           d \in Dialects}

InitNarr ==
  /\ src \in NarrInputs
  /\ pm \in {NoMeta, [title |-> Some(<<"<", "x">>), description |-> Some(<<"&">>)]}
  /\ ens = NoEnsured
  /\ mpc = "narrate"
  /\ ret = NoRet
  /\ XfIdle
  /\ clock = 0
  /\ AppIdle

NarrateStep ==
  /\ mpc = "narrate"
  /\ \E tieUp \in BOOLEAN :
       ret' = [n |-> 1, type |-> detectDiagramType(src), html |-> narrativeHtml(src, pm, tieUp)]
  /\ mpc' = "narrated"
  /\ UNCHANGED <<src, pm, ens, xfVars, clock, appVars>>

SpecNarr == InitNarr /\ [][NarrateStep]_vars

(***************************************************************************)
(* Specification Spec: the page.  The user edits the Mermaid source, edits *)
(* the SVG code, switches the SVG mode, copies and exports; every source   *)
(* edit starts a validateAndRender run, which awaits the rendering engine. *)
(***************************************************************************)
Page ==
  [State |-> State, svgCode |-> svgCode, previewLight |-> previewLight,
   previewDark |-> previewDark, highlight |-> highlight]

SetPage(Q) ==
  /\ State' = Q.State
  /\ svgCode' = Q.svgCode
  /\ previewLight' = Q.previewLight
  /\ previewDark' = Q.previewDark
  /\ highlight' = Q.highlight

\* source texts the user types or loads: nothing, a diagram without
\* annotations, a diagram with both annotations
AppSources ==
  {<<>>,
   <<"x">>,
   <<"y", "\n", "%%", "accTitle", " ", "t", "\n", "%%", "accDescr", " ", "d">>}

\* markup the rendering engine returns: a flowchart with one node (HTML
\* label), a chart without node groups, markup that is not well-formed XML
EngineDocs ==
  {Markup(Root(<<Leaf("style", <<"x">>),
                 Elem("g", <<"flowchart">>, "node", <<>>,
                      <<Rect, Leaf("foreignObject", <<"a">>)>>)>>)),
   Markup(Root(<<Leaf("style", <<"x">>),
                 Elem("g", NoId, "", <<>>, <<Leaf("path", <<>>)>>)>>)),
   Malformed(Root(<<Leaf("style", <<"x">>)>>))}

\* what the user leaves in the SVG code textarea: nothing, text that is not
\* XML, a bare <svg> without accessibility markup
UserSvgs ==
  {EmptyString,
   Malformed(Root(<<>>)),
   Markup(Root(<<Leaf("style", <<"x">>)>>))}

Init ==
  /\ AppIdle
  /\ clock = 0
  /\ MetaIdle
  /\ XfIdle

\* the runs of s that remain when the run at position i has written the page
\* (i = Len(s) + 1: a run that wrote without waiting).  Runs are kept in start
\* order; those started before the writer are marked superseded.  The mark is
\* bookkeeping for the properties below, the program keeps no such record.
Supersede(s, i) ==
  LET marked == [j \in 1..Len(s) |-> IF j < i THEN [s[j] EXCEPT !.stale = TRUE] ELSE s[j]]
  IN  IF i <= Len(s) THEN RemoveIdx(marked, i) ELSE marked

\* validateAndRender up to its await, the textarea holding s: an empty source
\* clears the previews and returns false at once, any other starts a run
validateAndRenderStart(s, byRandom) ==
  LET mermaidSource == Trim(s)
      ensured == ensureMetadata(mermaidSource)
  IN  IF mermaidSource = <<>>
      THEN /\ sourceInput' = s
           /\ editorError' = ""
           /\ SetPage(displayPreview(Page, EmptyString))
           /\ inflight' = Supersede(inflight, Len(inflight) + 1)
      ELSE /\ Len(inflight) < MaxInflight
           /\ sourceInput' = (IF ensured.added THEN ensured.source ELSE s)
           /\ inflight' = Append(inflight, [source   |-> ensured.source,
                                            metadata |-> ensured.metadata,
                                            stale    |-> FALSE,
                                            random   |-> byRandom])
           /\ UNCHANGED <<pageVars, editorError>>

\* 'input' on #mermaid-source
SourceInput ==
  /\ Len(inflight) < MaxInflight
  /\ \E s \in AppSources : validateAndRenderStart(s, FALSE)
  /\ handlerToast' = ""
  /\ UNCHANGED <<metaVars, xfVars, clock, narrative, status, lastDiagram, randomBtn>>
  /\ exported' = NotExported
  /\ rendered' = NotRendered

\* 'click' on #random-btn with no check of the disabled flag
RandomClickUnguarded ==
  /\ randomBtn.loading + Cardinality({i \in 1..Len(inflight) : inflight[i].random})
       < MaxHandlers
  /\ randomBtn' = [disabled |-> TRUE, busy |-> TRUE, loading |-> randomBtn.loading + 1]
  /\ handlerToast' = ""
  /\ UNCHANGED <<metaVars, xfVars, clock, sourceInput, pageVars, narrative, editorError,
                 status, lastDiagram, inflight>>
  /\ exported' = NotExported
  /\ rendered' = NotRendered

\* 'click' on #random-btn: the handler up to its first await.  A click on
\* the disabled button starts nothing.
RandomClick ==
  /\ randomBtn.loading + Cardinality({i \in 1..Len(inflight) : inflight[i].random})
       < MaxHandlers
  /\ ~randomBtn.disabled
  /\ randomBtn' = [disabled |-> TRUE, busy |-> TRUE, loading |-> randomBtn.loading + 1]
  /\ handlerToast' = ""
  /\ UNCHANGED <<metaVars, xfVars, clock, sourceInput, pageVars, narrative, editorError,
                 status, lastDiagram, inflight>>
  /\ exported' = NotExported
  /\ rendered' = NotRendered

\* loadRandomExampleIntoEditor settles: it throws, or it has put the example
\* into the editor and the handler goes on to validateAndRender
RandomLoadSettles ==
  /\ randomBtn.loading > 0
  /\ \/ /\ randomBtn' = [disabled |-> FALSE, busy |-> FALSE,
                         loading |-> randomBtn.loading - 1]
        /\ handlerToast' = "Could not load example."
        /\ UNCHANGED <<sourceInput, pageVars, editorError, lastDiagram, inflight>>
     \/ \E content \in AppSources :
          /\ validateAndRenderStart(Trim(content), TRUE)
          /\ lastDiagram' = Trim(content)
          /\ handlerToast' = (IF Trim(content) = <<>>
                              THEN "Example loaded but failed to render." ELSE "")
          /\ randomBtn' = IF Trim(content) = <<>>
                          THEN [disabled |-> FALSE, busy |-> FALSE,
                                loading |-> randomBtn.loading - 1]
                          ELSE [randomBtn EXCEPT !.loading = @ - 1]
  /\ UNCHANGED <<metaVars, xfVars, clock, narrative, status>>
  /\ exported' = NotExported
  /\ rendered' = NotRendered

\* 'change' on #mermaid-source
SourceChange ==
  /\ lastDiagram # sourceInput
  /\ lastDiagram' = sourceInput
  /\ UNCHANGED <<metaVars, xfVars, clock, sourceInput, pageVars, narrative, editorError,
                 status, inflight>>
  /\ exported' = NotExported
  /\ rendered' = NotRendered
  /\ handlerToast' = ""
  /\ UNCHANGED randomBtn

\* Date.now() while the page runs
PageLater(t) == {u \in t..(t + 1) : u <= MaxPageClock}

\* the engine resolves run i: validateAndRender after its await
RenderResolves ==
  \E i \in 1..Len(inflight), svg \in EngineDocs, t1 \in PageLater(clock),
     r1 \in 0..(MaxRnd - 1), r2 \in 0..(MaxRnd - 1) :
    \E t2 \in PageLater(t1), pd \in parseFromString(svg) :
      LET run == inflight[i]
          out == applyAccessibilityTransformations(
                   pd, run.metadata,
                   generateUniqueId("title", t1, r1), generateUniqueId("desc", t2, r2))
      IN  /\ clock' = t2
          /\ IF out.threw
             THEN /\ editorError' = "transform failed"
                  /\ inflight' = RemoveIdx(inflight, i)
                  /\ handlerToast' = (IF run.random THEN "Example loaded but failed to render." ELSE "")
                  /\ UNCHANGED <<pageVars, narrative, lastDiagram>>
             ELSE /\ inflight' = Supersede(inflight, i)
                  /\ handlerToast' = (IF run.random THEN "Loaded a random example." ELSE "")
                  /\ SetPage(displayPreview(Page, ensureViewBox(out.svg)))
                  /\ narrative' = generateDiagramNarrative(run.source, run.metadata)
                  /\ lastDiagram' = run.source
                  /\ editorError' = ""
          /\ randomBtn' = (IF run.random
                           THEN [randomBtn EXCEPT !.disabled = FALSE, !.busy = FALSE]
                           ELSE randomBtn)
          /\ UNCHANGED <<metaVars, xfVars, sourceInput, status>>
          /\ exported' = NotExported
          /\ rendered' = [done |-> TRUE, svg |-> svg, failed |-> ~svg.wf \/ out.threw]

\* a catch block that also clears the previews
RenderRejectsClearing ==
  \E i \in 1..Len(inflight) :
    /\ inflight' = RemoveIdx(inflight, i)
    /\ editorError' = "Invalid Mermaid syntax"
    /\ SetPage(displayPreview(Page, EmptyString))
    /\ handlerToast' = ""
    /\ UNCHANGED <<metaVars, xfVars, clock, sourceInput, narrative, status, lastDiagram,
                   randomBtn>>
    /\ exported' = NotExported
    /\ rendered' = NotRendered

\* the engine rejects run i: the catch block of validateAndRender
RenderRejects ==
  \E i \in 1..Len(inflight) :
    /\ inflight' = RemoveIdx(inflight, i)
    /\ editorError' = "Invalid Mermaid syntax"
    /\ handlerToast' = (IF inflight[i].random THEN "Example loaded but failed to render." ELSE "")
    /\ randomBtn' = (IF inflight[i].random
                     THEN [randomBtn EXCEPT !.disabled = FALSE, !.busy = FALSE]
                     ELSE randomBtn)
    /\ UNCHANGED <<metaVars, xfVars, clock, sourceInput, pageVars, narrative, status,
                   lastDiagram>>
    /\ exported' = NotExported
    /\ rendered' = NotRendered

\* 'input' on #svg-code
SvgCodeInput ==
  \E code \in UserSvgs :
    /\ code # svgCode
    /\ IF parseSvgSafely(code)
       THEN /\ SetPage([displayPreview([Page EXCEPT !.svgCode = code], code)
                          EXCEPT !.highlight = code])
            /\ UNCHANGED status
       ELSE /\ svgCode' = code
            /\ status' = "error: Invalid SVG code. Please fix errors."
            /\ UNCHANGED <<State, previewLight, previewDark, highlight>>
    /\ UNCHANGED <<metaVars, xfVars, clock, sourceInput, narrative, editorError,
                   lastDiagram, inflight>>
    /\ exported' = NotExported
    /\ rendered' = NotRendered
    /\ handlerToast' = ""
    /\ UNCHANGED randomBtn

\* 'change' on the svg-mode radios
ModeChange ==
  \E m \in {"beautiful", "optimized"} :
    /\ m # State.svgMode
    /\ SetPage(updateSvgDisplay([Page EXCEPT !.State.svgMode = m]))
    /\ UNCHANGED <<metaVars, xfVars, clock, sourceInput, narrative, editorError, status,
                   lastDiagram, inflight>>
    /\ exported' = NotExported
    /\ rendered' = NotRendered
    /\ handlerToast' = ""
    /\ UNCHANGED randomBtn

\* 'click' on #copy-svg-btn
CopySvg ==
  /\ SetPage(updateSvgDisplay(Page))
  /\ status' \in {"SVG code copied to clipboard", "error: Failed to copy to clipboard"}
  /\ UNCHANGED <<metaVars, xfVars, clock, sourceInput, narrative, editorError,
                 lastDiagram, inflight>>
  /\ exported' = NotExported
  /\ rendered' = NotRendered
  /\ handlerToast' = ""
  /\ UNCHANGED randomBtn

\* 'click' on #export-btn
Export ==
  LET r == handleExport(Page)
  IN  /\ SetPage(r.page)
      /\ status' = r.status
      /\ exported' = r.out
      /\ rendered' = NotRendered
      /\ handlerToast' = ""
      /\ UNCHANGED randomBtn
      /\ UNCHANGED <<metaVars, xfVars, clock, sourceInput, narrative, editorError,
                     lastDiagram, inflight>>

Next ==
  \/ SourceInput
  \/ SourceChange
  \/ RenderResolves
  \/ RenderRejects
  \/ SvgCodeInput
  \/ ModeChange
  \/ CopySvg
  \/ Export

Spec == Init /\ [][Next]_vars

\* The page with the Random button: its click handler, the editor and the
\* engine.
SpecRandom ==
  Init /\ [][RandomClick \/ RandomLoadSettles \/ SourceInput \/ RenderResolves
             \/ RenderRejects]_vars

(***************************************************************************)
(* Properties of the metadata functions (SpecMeta)                         *)
(***************************************************************************)
\* C7: for every source text, the metadata returned by ensureMetadata has a
\* non-null title and a non-null description.
MetadataAlwaysPresent ==
  mpc = "ensured" => ens.metadata.title.some /\ ens.metadata.description.some

\* a source without a title annotation has been through ensureMetadata
MetadataSynthesized ==
  /\ mpc = "ensured"
  /\ ens.added
  /\ ~parseMermaidMetadata(src).title.some
  /\ Len(src) > 0

\* the annotation lines the claim expects for the fields src lacks, each
\* followed by its line terminator
MissingLines(s) ==
  (IF ~Truthy(parseMermaidMetadata(s).title)
   THEN DefaultTitleLine \o <<"\n">> ELSE <<>>)
  \o
  (IF ~Truthy(parseMermaidMetadata(s).description)
   THEN DefaultDescrLine \o <<"\n">> ELSE <<>>)

\* C8: ensureMetadata only appends: the input is an unmodified prefix of the
\* returned source, what follows it is only the synthesized lines for the
\* fields that lack text (after a line break when the input does not end with
\* one), and with no field lacking the returned source is the input.
EnsureOnlyAppends ==
  mpc = "ensured" =>
    /\ IsPrefix(src, ens.source)
    /\ LET rest == SubSeq(ens.source, Len(src) + 1, Len(ens.source))
       IN  IF MissingLines(src) = <<>>
           THEN rest = <<>>
           ELSE rest = (IF endsWith(src, "\n") THEN <<>> ELSE <<"\n">>) \o MissingLines(src)

\* a non-empty source lacking its description has been through ensureMetadata
AppendedAfterText ==
  /\ mpc = "ensured"
  /\ ens.added
  /\ Len(src) >= 3
  /\ Truthy(parseMermaidMetadata(src).title)
  /\ ~endsWith(src, "\n")

\* The free text the claim expects for keyword kw: on the first line that
\* carries "%%", blanks, kw, the rest of that line, trimmed.
SkipBlanks(s, p) ==
  LET cand == {q \in p..Len(s) : s[q] # " "}
  IN  IF cand = {} THEN Len(s) + 1 ELSE Min(cand)

CarriesAt(s, kw, i) ==
  /\ s[i] = "%%"
  /\ SkipBlanks(s, i + 1) <= Len(s)
  /\ s[SkipBlanks(s, i + 1)] = kw

LineText(s, kw) ==
  LET hits == {i \in 1..Len(s) : CarriesAt(s, kw, i)}
  IN  IF hits = {} THEN Null
      ELSE LET k == SkipBlanks(s, Min(hits) + 1)
           IN  Some(Trim(SubSeq(s, k + 1, EndOfLine(s, k + 1) - 1)))

AgreesWithLine(got, want) ==
  IF ~want.some THEN got = Null
  ELSE IF want.v = <<>> THEN ~Truthy(got)
  ELSE got = want

\* C9: for each keyword, parseMermaidMetadata returns the trimmed text that
\* follows the keyword on the first line carrying the annotation, or null when
\* no line carries it (an annotation line with no text may give null or the
\* empty text).
ParseReturnsLineText ==
  mpc = "parsed" =>
    /\ AgreesWithLine(pm.title, LineText(src, "accTitle"))
    /\ AgreesWithLine(pm.description, LineText(src, "accDescr"))

(***************************************************************************)
(* Properties of the transformer (SpecXform)                               *)
(***************************************************************************)
\* a call on well-formed markup has returned
Returned == calls > 0 /\ prev.wf /\ ~res.threw

CountTag(kids, tag) == Cardinality({i \in 1..Len(kids) : kids[i].tag = tag})

\* the ids of the title and desc children of the root that carry the ids
\* generated by the last call, title first
InsertedIds ==
  LET kids == res.svg.root.kids
  IN  (IF \E i \in 1..Len(kids) : kids[i].tag = "title" /\ kids[i].id = res.titleId
       THEN <<res.titleId>> ELSE <<>>)
      \o
      (IF \E i \in 1..Len(kids) : kids[i].tag = "desc" /\ kids[i].id = res.descId
       THEN <<res.descId>> ELSE <<>>)

\* C1: after applyAccessibilityTransformations returns, the root has
\* role="img" and its aria-labelledby list is exactly the ids of the title and
\* desc nodes inserted by that call, title first.
LabelledByInsertedNodes ==
  Returned =>
    /\ res.svg.root.role = "img"
    /\ res.svg.root.labelledby = InsertedIds

\* C2: after the transformer has been re-run on its own output, every call
\* with a non-empty title and description, the root has exactly one title
\* child and exactly one desc child.
OnePairAfterRerun ==
  (calls >= 2 /\ allText /\ ~res.threw /\ ~hasParserError(res.svg.root)) =>
    /\ CountTag(res.svg.root.kids, "title") = 1
    /\ CountTag(res.svg.root.kids, "desc") = 1

\* C3: with a non-empty title and description the new title is the first
\* child of the root and the new desc is the node right after it.
TitleThenDescFirst ==
  (Returned /\ Truthy(meta.title) /\ Truthy(meta.description)) =>
    LET kids == res.svg.root.kids
    IN  /\ Len(kids) >= 2
        /\ kids[1].tag = "title" /\ kids[1].id = res.titleId
        /\ kids[2].tag = "desc" /\ kids[2].id = res.descId

\* C4: when the markup cannot be parsed the call fails with an error; it
\* never returns a serialized document.
MalformedMarkupThrows ==
  (calls > 0 /\ ~prev.wf) => res.threw

HasTextContent(node) ==
  \E j \in 1..Len(node.kids) :
     node.kids[j].tag # "title" /\ Trim(node.kids[j].text) # <<>>

ListItems(svg) ==
  {<<i, 0>> : i \in {n \in 1..Len(svg.kids) : svg.kids[n].role = "listitem"}}
  \cup
  UNION {{<<i, j>> : j \in {m \in 1..Len(svg.kids[i].kids) :
                              svg.kids[i].kids[m].role = "listitem"}} :
           i \in 1..Len(svg.kids)}

\* C5: for a flowchart document with N node groups, after the flowchart
\* semantics are applied exactly N elements carry role="listitem" and every
\* node group with text content has exactly one title child, with text.
NodeRoleCoverage ==
  (Returned /\ flowchartRoot(prev.root)) =>
    LET svg == res.svg.root
    IN  /\ Cardinality(ListItems(svg)) = Cardinality(nodeGroups(prev.root))
        /\ \A i \in nodeGroups(svg) :
             HasTextContent(svg.kids[i]) =>
               /\ CountTag(svg.kids[i].kids, "title") = 1
               /\ svg.kids[i].kids[FirstTitleIdx(svg.kids[i].kids)].text # <<>>

\* C6: in the output no element with role="listitem" is without an ancestor
\* with role="list".
ListItemsInsideList ==
  Returned =>
    LET svg == res.svg.root
    IN  \A l \in ListItems(svg) :
          \/ svg.role = "list"
          \/ (l[2] # 0 /\ svg.kids[l[1]].role = "list")

(***************************************************************************)
(* Properties of the page (Spec)                                           *)
(***************************************************************************)
HasLabelledChild(root, tag) ==
  \E i \in 1..Len(root.kids) :
     /\ root.kids[i].tag = tag
     /\ \E n \in 1..Len(root.labelledby) : root.labelledby[n] = root.kids[i].id

\* markup that is an SVG with role="img", a title and a desc, both referenced
\* by aria-labelledby
Accessible(svgString) ==
  /\ svgString.wf
  /\ svgString.root.tag = "svg"
  /\ svgString.root.role = "img"
  /\ HasLabelledChild(svgString.root, "title")
  /\ HasLabelledChild(svgString.root, "desc")

\* C10: handleExport never emits an SVG that lacks role="img", a title, a
\* description or the aria-labelledby reference.
ExportIsAccessible == exported.done => Accessible(exported.svg)

\* a superseded run (a run started after it has already written the page) is
\* awaiting the engine
SupersededRunPending == \E i \in 1..Len(inflight) : inflight[i].stale

\* C11: the result of a superseded run is discarded: the step in which such a
\* run finishes leaves the preview, the SVG code, the stored SVG, the
\* narrative and the saved diagram as the later-started run committed them.
StaleRunDiscarded ==
  [][(\E i \in 1..Len(inflight) :
         inflight[i].stale /\ inflight' = RemoveIdx(inflight, i))
       => UNCHANGED <<pageVars, narrative, lastDiagram>>]_vars

\* a run has ended with the engine's markup failing in the transformer
TransformFailedInRun == rendered.done /\ rendered.failed

\* C12: when the transformation fails in a run, the run ends with the
\* engine's markup in the preview, changed only by role="img" on its root, and
\* with a warning on the page (the run's message area is not empty).
FallbackShown ==
  TransformFailedInRun =>
    /\ ~IsEmpty(previewLight)
    /\ previewLight.root = [rendered.svg.root EXCEPT !.role = "img"]
    /\ editorError # ""

(***************************************************************************)
(* Properties of skipFrontmatter (SpecStrip)                               *)
(***************************************************************************)
\* C13: skipFrontmatter is idempotent: applied to its own result it returns
\* that result.
StripIdempotent == ret.n >= 2 => ret.text = ret.before

(***************************************************************************)
(* Properties of detectDiagramType (SpecDetect)                            *)
(***************************************************************************)
\* the first non-empty line of s, trimmed (empty when s has none)
FirstNonEmptyLine(s) ==
  LET lines == split(s)
      full == {i \in 1..Len(lines) : Trim(lines[i]) # <<>>}
  IN  IF full = {} THEN <<>> ELSE Trim(lines[Min(full)])

\* the type of a declaration line
TypeOfLine(line) ==
  IF line = <<>> THEN "unknown"
  ELSE IF line[1] \in {"flowchart", "graph"} THEN "flowchart"
  ELSE IF line[1] \in {"C4Context", "C4Container", "C4Component"} THEN "c4"
  ELSE IF line[1] = "sankey-beta" THEN "sankey"
  ELSE IF line[1] \in Keywords THEN line[1]
  ELSE "unknown"

\* C14: for every source, the empty one included, detectDiagramType returns
\* the type whose keyword starts the first non-empty line (graph and flowchart
\* are flowchart, the three C4 keywords are c4, sankey-beta is sankey, every
\* other keyword its own type) and unknown for every other source.
DetectsDeclaredType ==
  mpc = "detected" => ret.type = TypeOfLine(FirstNonEmptyLine(src))

\* s begins with a frontmatter block: a fence line, any lines, a fence line
HasFrontmatter(s) ==
  LET lines == split(s)
  IN  /\ Trim(lines[1]) = Fence
      /\ \E i \in 2..Len(lines) : Trim(lines[i]) = Fence

\* s without its leading frontmatter block
BlockRemoved(s) ==
  LET lines == split(s)
      closing == Min({i \in 2..Len(lines) : Trim(lines[i]) = Fence})
  IN  join(SubSeq(lines, closing + 1, Len(lines)))

\* C15: for a source that begins with a frontmatter block, detectDiagramType
\* returns the type of the first non-empty line after the block, which is the
\* type it returns for the source with the block removed.
DetectIgnoresFrontmatter ==
  (mpc = "detected" /\ HasFrontmatter(src)) =>
    /\ ret.type = TypeOfLine(FirstNonEmptyLine(BlockRemoved(src)))
    /\ ret.type = detectDiagramType(BlockRemoved(src))

(***************************************************************************)
(* Properties of the narrative (SpecNarr)                                  *)
(***************************************************************************)
Narrated == mpc = "narrated"

\* the pieces of the narrative that carry text of the source
SourceTexts == {ret.html[i].s : i \in {j \in 1..Len(ret.html) : ret.html[j].k = "txt"}}

\* C16: in the narrative of every dialect, no text taken from the source
\* (title, description, node text, labels, names, series values) carries a
\* raw "<" or ">": each was escaped before it was embedded
NarrativeEscaped ==
  Narrated => \A s \in SourceTexts : \A i \in 1..Len(s) : s[i] \notin {"<", ">"}

\* a source with "<" in a series value of an xychart has been narrated, and
\* the narrative carries the escaped form
EscapedTextEmbedded ==
  /\ Narrated
  /\ ret.type = "xychart"
  /\ \E i \in 1..Len(src) : src[i] = "<"
  /\ \E s \in SourceTexts : \E i \in 1..Len(s) : s[i] = "&lt;"

\* the content lines of the source after its declaration line
BodyLines ==
  LET all == contentLines(src, ret.type = "timeline") IN SubSeq(all, 2, Len(all))

\* no line of the source matches an element pattern of its dialect
NoElements ==
  LET all == contentLines(src, FALSE)
  IN  IF ret.type = "flowchart" THEN flowNodes(BodyLines) = <<>> /\ flowEdges(BodyLines) = <<>>
      ELSE IF ret.type = "pie" THEN pieData(BodyLines) = <<>>
      ELSE IF ret.type = "classDiagram"
      THEN classParse(BodyLines) = [classes |-> <<>>, relationships |-> <<>>]
      ELSE IF ret.type = "gantt" THEN ganttSections(all) = <<>> /\ titlePieces(all) = <<>>
      ELSE IF ret.type = "journey" THEN journeySections(all) = <<>> /\ titlePieces(all) = <<>>
      ELSE IF ret.type = "mindmap" THEN mindmapNodes(BodyLines) = <<>>
      ELSE IF ret.type = "timeline"
      THEN timelineRead(BodyLines) = [narrative |-> <<>>, currentSection |-> <<>>, events |-> <<>>]
      ELSE IF ret.type = "xychart" THEN xyRead(all) = xyRead(<<>>)
      ELSE FALSE

\* the sentences with which a narrative says that nothing was found
EmptyCaseNotes ==
  {Lit("<li>No flowchart steps detected.</li>"), Lit("<p><em>Empty mind map structure</em></p>"),
   Lit("<p><em>Empty timeline</em></p>")}

\* C17: the narrative of a source of a narrated dialect in which no line
\* matches an element pattern states the empty case explicitly; it is not
\* only a heading or an empty list
EmptyCaseStated ==
  (Narrated /\ NoElements) => \E i \in 1..Len(ret.html) : ret.html[i] \in EmptyCaseNotes

\* the types generateDiagramNarrative has a generator for
NarratedTypes ==
  {"flowchart", "pie", "classDiagram", "gantt", "journey", "mindmap", "timeline", "xychart"}

\* C18: for a type without a generator of its own, unknown included, the
\* narrative names the type, reports counts of the structure, says that a
\* detailed narrative is not yet available and that the accessibility
\* attributes are still applied
GenericNarrativeComplete ==
  (Narrated /\ ret.type \notin NarratedTypes) =>
    /\ \E i \in 1..Len(ret.html) : ret.html[i] = Lit(ret.type)
    /\ \E i \in 1..Len(ret.html) : ret.html[i].k = "num"
    /\ \E i \in 1..Len(ret.html) :
         ret.html[i] = Lit("does not yet have a detailed narrative generator")
    /\ \E i \in 1..Len(ret.html) : ret.html[i] = Lit("accessibility attributes")

\* the pieces ps occur in the narrative one after the other
HtmlHas(ps) ==
  \E i \in 0..(Len(ret.html) - Len(ps)) : \A j \in 1..Len(ps) : ret.html[i + j] = ps[j]

\* C19: for a flowchart whose only line defines a node on each end of an
\* arrow, X[a]-->Y[b], the narrative opens with "Start at:" and the first
\* node's text, has an item for the edge that names the target's text, and
\* reports 2 nodes, 1 connection
InlineNodesNarrated ==
  (/\ Narrated
   /\ ret.type = "flowchart"
   /\ BodyLines = <<(<<"X", "[", "a", "]", "-->", "Y", "[", "b", "]">>)>>)
  => /\ HtmlHas(<<Lit("<li>Start at: <strong>"), Txt(<<"a">>)>>)
     /\ HtmlHas(<<Lit("</strong> -> <strong>"), Txt(<<"b">>), Lit("</strong></li>")>>)
     /\ HtmlHas(<<Lit("<p><strong>Structure:</strong> "), Num(2), Lit(" node"), Lit("s"),
                  Lit(", "), Num(1), Lit(" connection"), Lit("</p>")>>)

\* the items of the pie narrative, in the order listed: label, value and
\* percentage (in tenths of a percent) as they stand in the markup
PieListed ==
  LET idx == {i \in 1..Len(ret.html) : ret.html[i] = Lit("<li><strong>")}
      at  == [k \in 1..Cardinality(idx) |->
                CHOOSE i \in idx : Cardinality({j \in idx : j < i}) = k - 1]
  IN  [k \in 1..Cardinality(idx) |->
         [label |-> ret.html[at[k] + 1].s, value |-> ret.html[at[k] + 3].n,
          pct |-> ret.html[at[k] + 5].n]]

\* the total the pie narrative reports
PieTotal ==
  ret.html[(CHOOSE i \in 1..Len(ret.html) : ret.html[i] = Lit("<p><strong>Total:</strong> ")) + 1].n

Abs(x) == IF x < 0 THEN -x ELSE x

RootOnlyRemoval ==
  (Returned /\ ~flowchartRoot(prev.root)) =>
    LET IsLabel(e) == e.tag \in {"title", "desc"}
        Other(e) == ~IsLabel(e)
    IN  /\ Len(SelectSeq(res.svg.root.kids, IsLabel)) = Len(InsertedIds)
        /\ SelectSeq(res.svg.root.kids, Other) = SelectSeq(prev.root.kids, Other)

\* the ids carried by the elements of a document, the root's children and
\* their children
IdsIn(root) ==
  {root.kids[i].id : i \in 1..Len(root.kids)}
  \cup UNION {{root.kids[i].kids[j].id : j \in 1..Len(root.kids[i].kids)} :
                i \in 1..Len(root.kids)}

\* C22: two identifiers produced by generateUniqueId differ, in the same call
\* and in different calls: the two ids of a call differ and neither is an id
\* that the document handed to the call already holds.
GeneratedIdsFresh ==
  (calls > 0 /\ prev.wf) =>
    /\ res.titleId # res.descId
    /\ res.titleId \notin IdsIn(prev.root)
    /\ res.descId \notin IdsIn(prev.root)

(***************************************************************************)
(* Further properties of the narrative (SpecNarr)                          *)
(***************************************************************************)
\* the verb the narrative is to use for a relationship operator
RelationVerb(op) ==
  IF op = "<|--" THEN "inherits from" ELSE IF op = "-->" THEN "uses" ELSE "relates to"

\* C25: in the class-diagram narrative every relationship line (a name, an
\* operator, a name) has an item in the Relationships list with the verb of
\* its operator: "inherits from" for <|--, "uses" for -->, "relates to" for
\* the other operators.
RelationshipsNarrated ==
  (Narrated /\ ret.type = "classDiagram") =>
    \A i \in 1..Len(BodyLines) :
       LET NotBlank(a) == a # " "
           parts == SelectSeq(BodyLines[i], NotBlank)
       IN  (/\ Len(parts) = 3
            /\ parts[1] \in Word(parts) /\ parts[3] \in Word(parts)
            /\ parts[2] \in {"<|--", "-->", "--", "..", "<.."})
           => HtmlHas(<<Lit("<li><strong>"), Txt(escapeHtml(<<parts[1]>>)), Lit("</strong> "),
                        Lit(RelationVerb(parts[2])), Lit(" <strong>"),
                        Txt(escapeHtml(<<parts[3]>>)), Lit("</strong></li>")>>)

\* C26: a step of a user journey is narrated only with a score that is an
\* integer from 1 to 5, as positive for 4 and 5, neutral for 3 and negative
\* for 1 and 2.
ScoresInRange ==
  (Narrated /\ ret.type = "journey") =>
    \A i \in 2..(Len(ret.html) - 1) :
       ret.html[i] = Lit(" experience (") =>
         LET score == ret.html[i + 1].n
         IN  /\ score \in 1..5
             /\ ret.html[i - 1] = Lit(IF score \in {4, 5} THEN "positive"
                                      ELSE IF score = 3 THEN "neutral" ELSE "negative")

\* the position of the last node before i that satisfies Test, 0 when none
LastBefore(i, Test(_)) ==
  LET S == {j \in 1..(i - 1) : Test(j)} IN IF S = {} THEN 0 ELSE Max(S)

\* C27: in the tree of the mind map the parent of each node is the nearest
\* preceding line with a smaller indentation depth, and the node is
\* top-level when there is none.
ParentIsNearestShallower ==
  (Narrated /\ ret.type = "mindmap") =>
    LET nodes == mindmapNodes(BodyLines)
        indent(i) == (SkipSp(BodyLines[i], 1) - 1) \div 2
    IN  \A i \in 1..Len(nodes) :
          LET Above(j) == nodes[j].depth = nodes[i].depth - 1
              Shallower(j) == indent(j) < indent(i)
          IN  LastBefore(i, Above) = LastBefore(i, Shallower)

\* the positions in the flowchart narrative where the list item of an edge
\* opens
EdgeItems ==
  {i \in 1..Len(ret.html) :
     ret.html[i] \in {Lit("<li>If <em>"), Lit("<li>From <em>"), Lit("<li>After <strong>"),
                      Lit("<li><strong>")}}

\* C30: in the flowchart narrative every edge parsed from the source has
\* exactly one list item: the connection count of the structure summary is
\* the number of edge items shown.
EdgeCountMatchesItems ==
  (Narrated /\ ret.type = "flowchart") =>
    \A i \in 1..(Len(ret.html) - 1) :
       ret.html[i + 1] = Lit(" connection") => ret.html[i].n = Cardinality(EdgeItems)

(***************************************************************************)
(* Further properties of the page (Spec, SpecRandom)                       *)
(***************************************************************************)
\* C23: when the engine rejects the source, the run shows the error in the
\* editor error area and leaves both previews and STATE.currentSvg as they
\* were: the previous preview is not cleared.
RejectionKeepsPreview ==
  [][RenderRejects =>
       /\ editorError' = "Invalid Mermaid syntax"
       /\ previewLight' = previewLight
       /\ previewDark' = previewDark
       /\ State'.currentSvg = State.currentSvg]_vars

\* a run was rejected after an earlier one had rendered, and the preview of
\* the earlier one is on the page
PreviewKeptAfterRejection ==
  /\ editorError = "Invalid Mermaid syntax"
  /\ narrative.shown
  /\ hasSvg(previewLight) /\ hasSvg(previewDark)
  /\ State.currentSvg = previewLight

\* the click handlers of #random-btn that have not finished: those awaiting
\* the load and those awaiting their validateAndRender run
HandlersInFlight ==
  randomBtn.loading + Cardinality({i \in 1..Len(inflight) : inflight[i].random})

\* C24: the Random button admits one load-and-render at a time: while a
\* click is being processed the button is disabled and marked busy and no
\* second handler runs, and when no handler runs the button is enabled and
\* not marked busy.
OneRandomLoadAtATime ==
  /\ HandlersInFlight <= 1
  /\ (HandlersInFlight = 1) => (randomBtn.disabled /\ randomBtn.busy)
  /\ (HandlersInFlight = 0) => (~randomBtn.disabled /\ ~randomBtn.busy)

\* a handler has finished after its render was rejected, and the button is
\* free again
RandomButtonReleased ==
  /\ handlerToast = "Example loaded but failed to render."
  /\ editorError = "Invalid Mermaid syntax"
  /\ ~randomBtn.disabled /\ ~randomBtn.busy

\* C28: when no validateAndRender run is in flight, the narrative shown
\* belongs to the diagram in the previews: no narrative stands next to an
\* empty preview.
NarrativeMatchesPreview ==
  (inflight = <<>> /\ narrative.shown) => (~IsEmpty(previewLight) /\ ~IsEmpty(previewDark))

\* C29: whenever displayPreview has put another SVG into STATE.currentSvg,
\* the SVG code textarea holds the beautified or optimized form (by
\* STATE.svgMode) of that SVG; emptying the editor leaves no SVG of the
\* previous diagram in the textarea.
TextareaFollowsPreview ==
  [][State'.currentSvg # State.currentSvg =>
       svgCode' = (IF State'.svgMode = "beautiful"
                   THEN formatSvg(State'.currentSvg)
                   ELSE optimizeSvg(State'.currentSvg))]_vars

====
